---- MODULE Spec2Model ----
(***************************************************************************)
(* Timeline synchronization core of the page server:                       *)
(*   - download_timeline_layers  (storage_sync/download.rs)                *)
(*   - upload_timeline_layers    (storage_sync/upload.rs)                  *)
(*   - handle_walreceiver_connection (walreceiver/walreceiver_connection.rs)*)
(* Each subsystem has its own specification over the shared variables;     *)
(* the variables of the other subsystems stay at rest.                     *)
(***************************************************************************)
EXTENDS Integers, Sequences, FiniteSets, TLC

(* ---- bounds ---- *)
MaxLayers == 2
MaxRetries == 2
MaxLsn == 16
MaxChunk == 5
MaxMsgs == 1
MaxTimelines == 2
MaxIndexLsn == 3
MaxCalls == 3

Layers == 1..MaxLayers
SyncIds == {"tl1"}

(* state of a file's content on disk *)
FileStates == {"absent", "empty", "partial", "complete", "synced"}

VARIABLES
    (* shared by the sync engine *)
    sync_id,            \* TenantTimelineId of the task being run
    sync_queue,         \* SyncQueue: sequence of pushed (sync_id, SyncTask)
    local_files,        \* paths in the timeline directory: layer -> content state
    remote_timeline,    \* Option<&RemoteTimeline>: present, awaits_download, stored_files
    (* download *)
    download_data,      \* SyncData<LayersDownload>: retries, layers_to_skip
    d_pc,               \* position of download_timeline_layers
    d_task,             \* per-layer download future: position / result
    d_collected,        \* futures whose result the collecting loop has consumed
    undo,               \* local `undo`
    errors_happened,    \* local `errors_happened`
    temp_files,         \* temp-suffixed files: layer -> content state
    failpoint_armed,    \* "remote-storage-download-pre-rename"
    d_result,           \* DownloadedTimeline variant returned
    d_pre,              \* download_data the call was entered with
    d_pre_queue,        \* sync_queue when the call was entered
    d_pre_local,        \* local_files when the call was entered
    d_fetched,          \* layers for which download_storage_object was called in this run
    d_fsync_failed,     \* the timeline-directory fsync of this run failed
    d_prev_truncated,   \* layers whose download stream truncated in the previous run
    d_prev,             \* how the previous run of the task ended
    (* upload *)
    upload_data,        \* SyncData<LayersUpload>: retries, layers_to_upload, uploaded_layers, metadata
    u_pc,               \* position of upload_timeline_layers
    u_task,             \* per-layer upload future: position / result
    u_collected,        \* futures whose result the collecting loop has consumed
    errors,             \* local `errors`
    remote_objects,     \* layer objects present in the remote storage
    no_layers_upload,   \* NO_LAYERS_UPLOAD counter
    u_result,           \* UploadedTimeline variant returned
    u_pre,              \* upload_data the call was entered with
    u_pre_queue,        \* sync_queue when the call was entered
    u_pre_objects,      \* remote_objects when the call was entered
    u_open_missing,     \* layers whose open failed because the path did not exist
    u_upload_calls,     \* layers for which upload_storage_object was called in this run
    u_dropped,          \* layers dropped from layers_to_upload as missing locally in this run
    (* WAL receiver *)
    w_pc,               \* position of handle_walreceiver_connection
    w_result,           \* its return value: "Ok" or "Err"
    last_record_lsn,    \* timeline.get_last_record_lsn()
    disk_consistent_lsn,\* timeline.get_disk_consistent_lsn()
    remote_index,       \* remote index entry of the timeline: present, disk_consistent_lsn
    connection_status,  \* local `connection_status`
    events,             \* value last sent on events_sender (none: <<>>)
    listener_alive,     \* a receiver of events_sender still exists
    cancelled,          \* the cancellation signal has fired
    gauge,              \* LIVE_CONNECTIONS_COUNT
    gauge_guard,        \* the scopeguard decrementing the gauge is armed
    end_of_wal,         \* local `end_of_wal`
    caught_up,          \* local `caught_up`
    last_rec_lsn,       \* local `last_rec_lsn`
    last_rec_lsn_before_msg, \* local `last_rec_lsn_before_msg`
    startpoint,         \* local `startpoint`
    sk_pos,             \* safekeeper: wal_start of the next XLogData
    dec_floor,          \* WAL decoder: no undecoded record ends at or before this position
    w_msg,              \* replication message being processed
    w_msgs,             \* number of replication messages received
    status_update,      \* local `status_update` (None: <<>>)
    remote_consistent,  \* local `timeline_remote_consistent_lsn`
    feedback,           \* ReplicationFeedback last sent (none: <<>>)
    fb_last_rec_lsn,    \* last_rec_lsn when that feedback was built
    decoded_lsn,        \* LSN of the record poll_decode yielded last (none: 0)
    ingest_lsn,         \* LSN last handed to ingest_record (none: 0)
    walingest_start,    \* LSN WalIngest::new was given (none: 0)
    send_failed,        \* the handler returned because a send on events_sender failed
    (* index parts *)
    i_mode,             \* entry point: "bulk" (download_index_parts) or "gather"
    i_tenant,           \* tenant_id given to gather_tenant_timelines_index_parts
    i_pc,               \* position of the entry point
    i_pending,          \* part_downloads: keys whose future has not been consumed
    index_parts,        \* local `index_parts`: tenant -> TenantIndexParts (no entry: Absent)
    i_results,          \* outcome of download_index_part per key
    i_late,             \* keys consumed when their tenant was already Poisoned
    i_result,           \* what gather_tenant_timelines_index_parts returned
    published,          \* index part object in the remote storage (none: <<>>)
    p_prev,             \* index part object before the last upload_index_part call
    p_calls,            \* number of upload_index_part calls
    p_index_part,       \* index part given to the last call
    p_result,           \* result of the last call
    (* index part codec *)
    c_pc,               \* position of upload_index_part / download_index_part
    c_id,               \* sync_id: tenant and timeline
    c_index_part,       \* index part given to upload_index_part
    c_bytes,            \* local `index_part_bytes` of upload_index_part
    c_store,            \* remote storage: object path -> content (none: <<>>)
    c_prev_store,       \* c_store when the last upload_index_part call was entered
    c_uploads,          \* number of upload_index_part calls that returned Ok
    c_download,         \* local `index_part_bytes` of download_index_part
    c_result,           \* what the last call returned
    (* safekeeper start *)
    s_pc,               \* position of SafekeeperNode::start
    s_retries,          \* loop variable `retries`
    s_polls,            \* number of check_status calls made
    s_sleeps,           \* number of one-second sleeps made
    s_dots,             \* number of "." printed
    s_result            \* what start returned

shared_vars == <<sync_id, sync_queue, local_files, remote_timeline>>
download_vars == <<download_data, d_pc, d_task, d_collected, undo,
                   errors_happened, temp_files, failpoint_armed, d_result, d_pre,
                   d_pre_queue, d_pre_local, d_fetched, d_fsync_failed, d_prev_truncated, d_prev>>
upload_vars == <<upload_data, u_pc, u_task, u_collected, errors, remote_objects,
                 no_layers_upload, u_result, u_pre, u_pre_queue, u_pre_objects,
                 u_open_missing, u_upload_calls, u_dropped>>
wal_vars == <<w_pc, w_result, last_record_lsn, disk_consistent_lsn, remote_index,
              connection_status, events, listener_alive, cancelled, gauge, gauge_guard,
              end_of_wal, caught_up, last_rec_lsn, last_rec_lsn_before_msg, startpoint,
              sk_pos, dec_floor, w_msg, w_msgs, status_update, remote_consistent, feedback,
              fb_last_rec_lsn, decoded_lsn, ingest_lsn, walingest_start,
              send_failed>>
index_vars == <<i_mode, i_tenant, i_pc, i_pending, index_parts, i_results, i_late, i_result,
                published, p_prev, p_calls, p_index_part, p_result>>
codec_vars == <<c_pc, c_id, c_index_part, c_bytes, c_store, c_prev_store, c_uploads,
                c_download, c_result>>
safekeeper_vars == <<s_pc, s_retries, s_polls, s_sleeps, s_dots, s_result>>
vars == <<shared_vars, download_vars, upload_vars, wal_vars, index_vars, codec_vars, safekeeper_vars, codec_vars,
          safekeeper_vars>>

Exists(files, l) == files[l] # "absent"
ExistingFiles(files) == {l \in Layers : Exists(files, l)}

NoRemoteTimeline == [present |-> FALSE, awaits_download |-> FALSE, stored_files |-> {}]
RemoteTimelines ==
    {NoRemoteTimeline} \cup
    [present : {TRUE}, awaits_download : BOOLEAN, stored_files : SUBSET Layers]

DownloadTask(id, data) == [sync_id |-> id, kind |-> "Download", data |-> data]

(* SyncQueue::push as called by the engines *)
SyncQueuePush(queue, id, task) == Append(queue, task)

(* ------------------------------------------------------------------ *)
(* download_timeline_layers                                            *)
(* ------------------------------------------------------------------ *)

DownloadAborts_OnlyNone(rt) == ~rt.present

(* download.rs:204-216 *)
DownloadAborts(rt) == ~rt.present \/ ~rt.awaits_download

LayersToDownload_All(rt, download) == rt.stored_files

(* download.rs:220-224 *)
LayersToDownload(rt, download) == rt.stored_files \ download.layers_to_skip

(* download.rs:264-279: layers of this run whose stream broke mid-copy *)
TruncatedLayers ==
    {l \in Layers : d_task[l] = "err" /\ temp_files[l] = "partial" /\ l \in d_fetched}

(* the previous run of the task: `after` is "Successful" when the caller runs the task
   again with the data a successful run returned, `undone` the paths a failed directory
   fsync took out of layers_to_skip again *)
PrevRun(after, fsync_failed, undone) ==
    [after |-> after, fsync_failed |-> fsync_failed,
     undone |-> IF fsync_failed THEN undone ELSE {}]

NoPrevRun == PrevRun("none", FALSE, {})

(* the value of d_prev in the specifications that do not follow a task over its runs *)
UntrackedRun == PrevRun("untracked", FALSE, {})

DownloadEnter ==
    /\ d_prev_truncated' = TruncatedLayers
    /\ d_prev' = IF d_prev = UntrackedRun THEN d_prev
               ELSE PrevRun(d_result, d_fsync_failed, undo)
    /\ d_pre' = download_data
    /\ d_pre_queue' = sync_queue
    /\ d_pre_local' = local_files
    /\ d_fetched' = {}
    /\ d_fsync_failed' = FALSE
    /\ undo' = {}
    /\ errors_happened' = FALSE
    /\ d_collected' = {}

(* download.rs:204-232: entry, abort checks, filtering, spawning the futures *)
DownloadCall ==
    /\ d_pc = "idle"
    /\ DownloadEnter
    /\ IF DownloadAborts(remote_timeline)
       THEN /\ d_result' = "Abort"
            /\ d_pc' = "returned"
            /\ d_task' = [l \in Layers |-> "none"]
       ELSE IF LayersToDownload(remote_timeline, download_data.data) = {}
       THEN /\ d_result' = "Successful"
            /\ d_pc' = "returned"
            /\ d_task' = [l \in Layers |-> "none"]
       ELSE /\ d_result' = "none"
            /\ d_pc' = "tasks"
            /\ d_task' = [l \in Layers |->
                    IF l \in LayersToDownload(remote_timeline, download_data.data)
                    THEN "spawned" ELSE "none"]
    /\ UNCHANGED <<shared_vars, download_data, temp_files, failpoint_armed, upload_vars, wal_vars, index_vars, codec_vars, safekeeper_vars>>

TaskStep(l, from, to) ==
    /\ d_pc = "tasks"
    /\ d_task[l] = from
    /\ d_task' = [d_task EXCEPT ![l] = to]

TaskFrame == UNCHANGED <<sync_id, sync_queue, remote_timeline, download_data, d_pc,
                         d_collected, undo, errors_happened, failpoint_armed, d_result,
                         d_pre, d_pre_queue, d_pre_local, d_fsync_failed, d_prev_truncated, d_prev,
                         upload_vars, wal_vars, index_vars, codec_vars, safekeeper_vars>>

SkipsDownload_Never(files, l) == FALSE

(* download.rs:237: layer_destination_path.exists() *)
SkipsDownload(files, l) == Exists(files, l)

(* download.rs:237-242: the destination exists, nothing is fetched *)
LayerExistsLocally(l) ==
    /\ SkipsDownload(local_files, l)
    /\ TaskStep(l, "spawned", "ok")
    /\ UNCHANGED <<local_files, temp_files, d_fetched>>
    /\ TaskFrame

(* download.rs:253-262: File::create of the temp file (truncates a leftover) *)
CreateTempFile(l) ==
    /\ ~SkipsDownload(local_files, l)
    /\ \/ /\ TaskStep(l, "spawned", "created")
          /\ temp_files' = [temp_files EXCEPT ![l] = "empty"]
       \/ /\ TaskStep(l, "spawned", "err")
          /\ UNCHANGED temp_files
    /\ UNCHANGED <<local_files, d_fetched>>
    /\ TaskFrame

(* download.rs:264-279: download_storage_object and io::copy into the temp file *)
CopyLayer(l) ==
    /\ d_fetched' = d_fetched \cup {l}
    /\ \/ /\ TaskStep(l, "created", "copied")
          /\ temp_files' = [temp_files EXCEPT ![l] = "complete"]
       \/ /\ TaskStep(l, "created", "err")       \* the download could not be initiated
          /\ UNCHANGED temp_files
       \/ /\ TaskStep(l, "created", "err")       \* the stream broke mid-copy
          /\ temp_files' = [temp_files EXCEPT ![l] = "partial"]
    /\ UNCHANGED local_files
    /\ TaskFrame

SyncedContent_NotSynced(c) == c

(* download.rs:289-300: after flush and sync_all the whole content is on disk *)
SyncedContent(c) == "synced"

(* download.rs:289-303: flush and sync_all of the temp file *)
SyncTempFile(l) ==
    /\ \/ /\ TaskStep(l, "copied", "synced")
          /\ temp_files' = [temp_files EXCEPT ![l] = SyncedContent(@)]
       \/ /\ TaskStep(l, "copied", "err")
          /\ UNCHANGED temp_files
    /\ UNCHANGED <<local_files, d_fetched>>
    /\ TaskFrame

RenamedFiles_NoMove(files, temps, l) == files

(* download.rs:309: the destination gets the content of the temp file *)
RenamedFiles(files, temps, l) == [files EXCEPT ![l] = temps[l]]

(* download.rs:305-309: failpoint, then rename of the temp file to the destination *)
RenameLayer(l) ==
    /\ \/ /\ ~failpoint_armed
          /\ TaskStep(l, "synced", "renamed")
          /\ local_files' = RenamedFiles(local_files, temp_files, l)
          /\ temp_files' = [temp_files EXCEPT ![l] = "absent"]
       \/ /\ TaskStep(l, "synced", "err")        \* failpoint or rename error
          /\ UNCHANGED <<local_files, temp_files>>
    /\ UNCHANGED d_fetched
    /\ TaskFrame

(* download.rs:311-318: fsync of the destination file *)
FsyncLayer(l) ==
    /\ \/ TaskStep(l, "renamed", "ok")
       \/ TaskStep(l, "renamed", "err")
    /\ UNCHANGED <<local_files, temp_files, d_fetched>>
    /\ TaskFrame

CollectOkSkip_NoInsert(skip, l) == skip

(* download.rs:329 *)
CollectOkSkip(skip, l) == skip \cup {l}

CollectErrSkip_Insert(skip, l) == skip \cup {l}

(* download.rs:331-334: a failed layer is not recorded *)
CollectErrSkip(skip, l) == skip

(* download.rs:328 *)
CollectOkUndo(u, l) == u \cup {l}

(* download.rs:325-336: the collecting loop takes one finished future *)
CollectDownload(l) ==
    /\ d_pc = "tasks"
    /\ l \notin d_collected
    /\ d_task[l] \in {"ok", "err"}
    /\ d_collected' = d_collected \cup {l}
    /\ IF d_task[l] = "ok"
       THEN /\ undo' = CollectOkUndo(undo, l)
            /\ download_data' = [download_data EXCEPT
                    !.data.layers_to_skip = CollectOkSkip(@, l)]
            /\ UNCHANGED errors_happened
       ELSE /\ errors_happened' = TRUE
            /\ download_data' = [download_data EXCEPT
                    !.data.layers_to_skip = CollectErrSkip(@, l)]
            /\ UNCHANGED undo
    /\ UNCHANGED <<shared_vars, d_pc, d_task, temp_files, failpoint_armed,
                   d_result, d_pre, d_pre_queue, d_pre_local, d_fetched, d_fsync_failed,
                   d_prev_truncated, d_prev, upload_vars, wal_vars, index_vars, codec_vars, safekeeper_vars>>

AllCollected == \A l \in Layers : d_task[l] # "none" => l \in d_collected

UndoSkip_NoRollback(skip, u) == skip

(* download.rs:350-352 *)
UndoSkip(skip, u) == skip \ u

BumpRetries_Forgotten(r) == r

(* download.rs:358 *)
BumpRetries(r) == r + 1

DownloadReturn_BumpsOnSuccess(data, failed) ==
    IF failed
    THEN /\ download_data' = [data EXCEPT !.retries = BumpRetries(data.retries)]
         /\ sync_queue' = SyncQueuePush(sync_queue, sync_id,
                DownloadTask(sync_id, [data EXCEPT !.retries = BumpRetries(data.retries)]))
         /\ d_result' = "FailedAndRescheduled"
    ELSE /\ download_data' = [data EXCEPT !.retries = BumpRetries(data.retries)]
         /\ UNCHANGED sync_queue
         /\ d_result' = "Successful"

(* download.rs:356-364 *)
DownloadReturn(data, failed) ==
    IF failed
    THEN /\ download_data' = [data EXCEPT !.retries = BumpRetries(data.retries)]
         /\ sync_queue' = SyncQueuePush(sync_queue, sync_id,
                DownloadTask(sync_id, [data EXCEPT !.retries = BumpRetries(data.retries)]))
         /\ d_result' = "FailedAndRescheduled"
    ELSE /\ download_data' = data
         /\ UNCHANGED sync_queue
         /\ d_result' = "Successful"

FsyncFailedErrors_Kept(errs) == errs

(* download.rs:353: a failed directory fsync counts as an error *)
FsyncFailedErrors(errs) == TRUE

(* download.rs:338-364: fsync of the timeline directory, rollback, result *)
FsyncTimelineDir ==
    /\ d_pc = "tasks"
    /\ AllCollected
    /\ d_pc' = "returned"
    /\ \/ /\ d_fsync_failed' = FALSE
          /\ DownloadReturn(download_data, errors_happened)
       \/ /\ d_fsync_failed' = TRUE
          /\ DownloadReturn([download_data EXCEPT
                !.data.layers_to_skip = UndoSkip(@, undo)],
                FsyncFailedErrors(errors_happened))
    /\ UNCHANGED <<sync_id, local_files, remote_timeline, d_task, d_collected, undo,
                   errors_happened, temp_files, failpoint_armed, d_pre, d_pre_queue,
                   d_pre_local, d_fetched, d_prev_truncated, d_prev, upload_vars, wal_vars, index_vars, codec_vars, safekeeper_vars>>

(* the sync loop takes the pending download task from the queue and runs it again *)
PopDownload ==
    /\ d_pc = "returned"
    /\ \E i \in 1..Len(sync_queue) :
        /\ sync_queue[i].kind = "Download"
        /\ sync_queue[i].data.retries < MaxRetries
        /\ sync_queue' = SubSeq(sync_queue, 1, i - 1) \o SubSeq(sync_queue, i + 1, Len(sync_queue))
        /\ sync_id' = sync_queue[i].sync_id
        /\ download_data' = sync_queue[i].data
    /\ d_pc' = "idle"
    /\ d_result' = "none"
    /\ UNCHANGED <<local_files, remote_timeline, d_task, d_collected, undo, errors_happened,
                   temp_files, failpoint_armed, d_pre, d_pre_queue, d_pre_local, d_fetched,
                   d_fsync_failed, d_prev_truncated, d_prev, upload_vars, wal_vars, index_vars, codec_vars, safekeeper_vars>>

(* ------------------------------------------------------------------ *)
(* upload_timeline_layers                                              *)
(* ------------------------------------------------------------------ *)

Metadatas == {"None", "meta"}

(* upload.rs:47-52 *)
UploadedTimeline(variant, errs) == [variant |-> variant, errors |-> errs]
NoUploadResult == UploadedTimeline("none", <<>>)

UploadTask_NoMetadata(id, data) ==
    [sync_id |-> id, kind |-> "Upload", data |-> [data EXCEPT !.data.metadata = "None"]]

(* upload.rs:179: SyncTask::Upload(upload_data) *)
UploadTask(id, data) == [sync_id |-> id, kind |-> "Upload", data |-> data]

(* upload.rs:71-74 *)
AlreadyUploadedLayers(rt) == IF rt.present THEN rt.stored_files ELSE {}

LayersToUpload_NoDedup(rt, upload) == upload.layers_to_upload

(* upload.rs:76-80 *)
LayersToUpload(rt, upload) == upload.layers_to_upload \ AlreadyUploadedLayers(rt)

UploadEnter ==
    /\ u_pre' = upload_data
    /\ u_pre_queue' = sync_queue
    /\ u_pre_objects' = remote_objects
    /\ u_open_missing' = {}
    /\ u_upload_calls' = {}
    /\ u_dropped' = {}
    /\ errors' = <<>>
    /\ u_collected' = {}

(* upload.rs:65-97: entry, filtering, no-op return, spawning the futures *)
UploadCall ==
    /\ u_pc = "idle"
    /\ UploadEnter
    /\ IF LayersToUpload(remote_timeline, upload_data.data) = {}
       THEN /\ no_layers_upload' = no_layers_upload + 1
            /\ u_result' = UploadedTimeline("Successful", <<>>)
            /\ u_pc' = "returned"
            /\ u_task' = [l \in Layers |-> "none"]
       ELSE /\ UNCHANGED no_layers_upload
            /\ u_result' = NoUploadResult
            /\ u_pc' = "tasks"
            /\ u_task' = [l \in Layers |->
                    IF l \in LayersToUpload(remote_timeline, upload_data.data)
                    THEN "spawned" ELSE "none"]
    /\ UNCHANGED <<shared_vars, download_vars, wal_vars, index_vars, codec_vars, safekeeper_vars, upload_data, remote_objects>>

UploadStep(l, from, to) ==
    /\ u_pc = "tasks"
    /\ u_task[l] = from
    /\ u_task' = [u_task EXCEPT ![l] = to]

UploadFrame == UNCHANGED <<shared_vars, download_vars, wal_vars, index_vars, codec_vars, safekeeper_vars, upload_data, u_pc, u_collected,
                           errors, no_layers_upload, u_result, u_pre, u_pre_queue,
                           u_pre_objects, u_dropped>>

(* upload.rs:102-110: File::open of the source; a failure is MissingLocalFile *)
OpenSource(l) ==
    /\ \/ /\ Exists(local_files, l)
          /\ UploadStep(l, "spawned", "opened")
          /\ UNCHANGED u_open_missing
       \/ /\ Exists(local_files, l)
          /\ UploadStep(l, "spawned", "MissingLocalFile")   \* open fails, the path is there
          /\ UNCHANGED u_open_missing
       \/ /\ ~Exists(local_files, l)
          /\ UploadStep(l, "spawned", "MissingLocalFile")
          /\ u_open_missing' = u_open_missing \cup {l}
    /\ UNCHANGED <<remote_objects, u_upload_calls>>
    /\ UploadFrame

(* upload.rs:112-122: metadata of the opened file; a failure is Other *)
SourceSize(l) ==
    /\ \/ UploadStep(l, "opened", "sized")
       \/ UploadStep(l, "opened", "Other")
    /\ UNCHANGED <<remote_objects, u_open_missing, u_upload_calls>>
    /\ UploadFrame

(* upload.rs:124-131: upload_storage_object; a failure is MissingLocalFile *)
UploadObject(l) ==
    /\ u_upload_calls' = u_upload_calls \cup {l}
    /\ \/ /\ UploadStep(l, "sized", "ok")
          /\ remote_objects' = remote_objects \cup {l}
       \/ /\ UploadStep(l, "sized", "MissingLocalFile")
          /\ UNCHANGED remote_objects
    /\ UNCHANGED u_open_missing
    /\ UploadFrame

CollectUploaded_NotRecorded(upload, l) == [upload EXCEPT !.layers_to_upload = @ \ {l}]

(* upload.rs:139-140 *)
CollectUploaded(upload, l) ==
    [upload EXCEPT !.layers_to_upload = @ \ {l}, !.uploaded_layers = @ \cup {l}]

MissingIsError_Always(files, l) == TRUE

(* upload.rs:148: the failed layer counts as an error iff its path still exists *)
MissingIsError(files, l) == Exists(files, l)

CollectMissing_AsUploaded(upload, l) ==
    [upload EXCEPT !.layers_to_upload = @ \ {l}, !.uploaded_layers = @ \cup {l}]

(* upload.rs:162 *)
CollectMissing(upload, l) == [upload EXCEPT !.layers_to_upload = @ \ {l}]

(* upload.rs:136-171: the collecting loop takes one finished future *)
CollectUpload(l) ==
    /\ u_pc = "tasks"
    /\ l \notin u_collected
    /\ u_task[l] \in {"ok", "Other", "MissingLocalFile"}
    /\ u_collected' = u_collected \cup {l}
    /\ IF u_task[l] = "ok"
       THEN /\ upload_data' = [upload_data EXCEPT !.data = CollectUploaded(upload_data.data, l)]
            /\ UNCHANGED <<errors, u_dropped>>
       ELSE IF u_task[l] = "Other" \/ MissingIsError(local_files, l)
       THEN /\ errors' = Append(errors, l)
            /\ UNCHANGED <<upload_data, u_dropped>>
       ELSE /\ upload_data' = [upload_data EXCEPT !.data = CollectMissing(upload_data.data, l)]
            /\ u_dropped' = u_dropped \cup {l}
            /\ UNCHANGED errors
    /\ UNCHANGED <<shared_vars, download_vars, wal_vars, index_vars, codec_vars, safekeeper_vars, u_pc, u_task, remote_objects, no_layers_upload,
                   u_result, u_pre, u_pre_queue, u_pre_objects, u_open_missing,
                   u_upload_calls>>

AllUploadsCollected == \A l \in Layers : u_task[l] # "none" => l \in u_collected

UploadFailed_Never(errs) == FALSE

(* upload.rs:173 *)
UploadFailed(errs) == errs # <<>>

(* upload.rs:178 *)
BumpUploadRetries(r) == r + 1

(* upload.rs:173-184 *)
UploadReturn ==
    /\ u_pc = "tasks"
    /\ AllUploadsCollected
    /\ u_pc' = "returned"
    /\ IF UploadFailed(errors)
       THEN /\ upload_data' = [upload_data EXCEPT !.retries = BumpUploadRetries(@)]
            /\ sync_queue' = SyncQueuePush(sync_queue, sync_id,
                    UploadTask(sync_id, [upload_data EXCEPT !.retries = BumpUploadRetries(@)]))
            /\ u_result' = UploadedTimeline("FailedAndRescheduled", errors)
       ELSE /\ UNCHANGED <<upload_data, sync_queue>>
            /\ u_result' = UploadedTimeline("Successful", <<>>)
    /\ UNCHANGED <<sync_id, local_files, remote_timeline, download_vars, wal_vars, index_vars, codec_vars, safekeeper_vars, u_task, u_collected,
                   errors, remote_objects, no_layers_upload, u_pre, u_pre_queue,
                   u_pre_objects, u_open_missing, u_upload_calls, u_dropped>>

(* the sync loop takes the pending upload task from the queue and runs it again *)
PopUpload ==
    /\ u_pc = "returned"
    /\ \E i \in 1..Len(sync_queue) :
        /\ sync_queue[i].kind = "Upload"
        /\ sync_queue[i].sync_id = sync_id
        /\ sync_queue[i].data.retries < MaxRetries
        /\ sync_queue' = SubSeq(sync_queue, 1, i - 1) \o SubSeq(sync_queue, i + 1, Len(sync_queue))
        /\ upload_data' = sync_queue[i].data
    /\ u_pc' = "idle"
    /\ u_result' = NoUploadResult
    /\ UNCHANGED <<sync_id, local_files, remote_timeline, download_vars, wal_vars, index_vars, codec_vars, safekeeper_vars, u_task, u_collected,
                   errors, remote_objects, no_layers_upload, u_pre, u_pre_queue,
                   u_pre_objects, u_open_missing, u_upload_calls, u_dropped>>

(* GC / compaction removes a local layer file while the upload task is pending or running *)
GcRemoveLayer(l) ==
    /\ u_pc \in {"idle", "tasks"}
    /\ Exists(local_files, l)
    /\ local_files' = [local_files EXCEPT ![l] = "absent"]
    /\ UNCHANGED <<sync_id, sync_queue, remote_timeline, download_vars, upload_vars, wal_vars, index_vars, codec_vars, safekeeper_vars>>

(* ------------------------------------------------------------------ *)
(* handle_walreceiver_connection                                       *)
(* ------------------------------------------------------------------ *)

None == <<>>
Some(x) == <<x>>

(* Lsn::calc_padding *)
CalcPadding(lsn, sz) == (sz - (lsn % sz)) % sz

(* Lsn::is_aligned *)
IsAligned(lsn) == lsn % 8 = 0

(* WalStreamDecoder: a record is reported with the 8-byte aligned position after it *)
DecodedLsn(record_end) == record_end + CalcPadding(record_end, 8)

Max(a, b) == IF a >= b THEN a ELSE b

(* walreceiver_connection.rs:75-82 *)
InitialStatus == [is_connected |-> TRUE, has_processed_wal |-> FALSE,
                  streaming_lsn |-> None, commit_lsn |-> None]

(* walreceiver_connection.rs:121: gauge.inc() *)
GaugeInc(g) == g + 1

GaugeDec_Leaks(g) == g

(* walreceiver_connection.rs:122-124: scopeguard::defer! { gauge.dec(); } *)
GaugeDec(g) == g - 1

(* return from the handler; the scopeguard of lines 122-124 runs if it is armed *)
WalReturn(result) ==
    /\ w_pc' = "done"
    /\ w_result' = result
    /\ gauge' = IF gauge_guard THEN GaugeDec(gauge) ELSE gauge
    /\ gauge_guard' = FALSE
    /\ UNCHANGED send_failed

WalStay(pc) ==
    /\ w_pc' = pc
    /\ UNCHANGED <<w_result, gauge, gauge_guard, send_failed>>

ListenerDropped_Err ==
    /\ w_pc' = "done"
    /\ w_result' = "Err"
    /\ gauge' = IF gauge_guard THEN GaugeDec(gauge) ELSE gauge
    /\ gauge_guard' = FALSE
    /\ send_failed' = TRUE

(* walreceiver_connection.rs:83-86, 135-138, 203-206, 269-273: `return Ok(())` *)
ListenerDropped ==
    /\ w_pc' = "done"
    /\ w_result' = "Ok"
    /\ gauge' = IF gauge_guard THEN GaugeDec(gauge) ELSE gauge
    /\ gauge_guard' = FALSE
    /\ send_failed' = TRUE

(* events_sender.send(Progress(status)); on a dropped listener the handler returns Ok *)
Publish(status, pc) ==
    IF listener_alive
    THEN /\ events' = Some(status)
         /\ WalStay(pc)
    ELSE /\ UNCHANGED events
         /\ ListenerDropped

WalFrame == UNCHANGED <<shared_vars, download_vars, upload_vars, index_vars, codec_vars,
                        safekeeper_vars>>

(* walreceiver_connection.rs:62-86 *)
Connect ==
    /\ w_pc = "connect"
    /\ \/ /\ WalReturn("Err")                 \* timeout or connection failure
          /\ UNCHANGED <<connection_status, events>>
       \/ /\ connection_status' = InitialStatus
          /\ Publish(InitialStatus, "identify")
    /\ UNCHANGED <<last_record_lsn, disk_consistent_lsn, remote_index, listener_alive,
                   cancelled, end_of_wal, caught_up, last_rec_lsn, last_rec_lsn_before_msg,
                   startpoint, sk_pos, dec_floor, w_msg, w_msgs, status_update,
                   remote_consistent, feedback, fb_last_rec_lsn, decoded_lsn, ingest_lsn,
                   walingest_start>>
    /\ WalFrame

XlogPositions == {8, 16}

(* walreceiver_connection.rs:117-138 *)
IdentifySystem ==
    /\ w_pc = "identify"
    /\ \/ /\ w_pc' = "done"                   \* IDENTIFY_SYSTEM fails; gauge.inc, then the guard
          /\ w_result' = "Err"
          /\ gauge' = GaugeDec(GaugeInc(gauge))
          /\ gauge_guard' = FALSE
          /\ UNCHANGED <<connection_status, events, end_of_wal, caught_up, send_failed>>
       \/ \E xlogpos \in XlogPositions :
          /\ end_of_wal' = xlogpos
          /\ caught_up' = FALSE
          /\ connection_status' = [connection_status EXCEPT !.commit_lsn = Some(xlogpos)]
          /\ IF listener_alive
             THEN /\ events' = Some(connection_status')
                  /\ w_pc' = "start"
                  /\ gauge' = GaugeInc(gauge)
                  /\ gauge_guard' = TRUE
                  /\ UNCHANGED <<w_result, send_failed>>
             ELSE /\ w_pc' = "done"
                  /\ w_result' = "Ok"
                  /\ gauge' = GaugeDec(GaugeInc(gauge))
                  /\ gauge_guard' = FALSE
                  /\ send_failed' = TRUE
                  /\ UNCHANGED events
    /\ UNCHANGED <<last_record_lsn, disk_consistent_lsn, remote_index, listener_alive,
                   cancelled, last_rec_lsn, last_rec_lsn_before_msg,
                   startpoint, sk_pos, dec_floor, w_msg, w_msgs, status_update,
                   remote_consistent, feedback, fb_last_rec_lsn, decoded_lsn, ingest_lsn,
                   walingest_start>>
    /\ WalFrame

Startpoint_NoPadding(lsn) == lsn

EnsureAligned_Skipped(lsn) == TRUE

(* walreceiver_connection.rs:229: ensure!(lsn.is_aligned()) *)
EnsureAligned(lsn) == IsAligned(lsn)

(* walreceiver_connection.rs:157 *)
Startpoint(lsn) == lsn + CalcPadding(lsn, 8)

NoPreviousWal_Ignored(lsn) == FALSE

(* walreceiver_connection.rs:152-154: bail!("No previous WAL position") *)
NoPreviousWal(lsn) == lsn = 0

(* walreceiver_connection.rs:140-169 *)
StartReplication ==
    /\ w_pc = "start"
    /\ \/ /\ WalReturn("Err")                 \* get_tenant fails
          /\ UNCHANGED <<last_rec_lsn, startpoint, sk_pos, dec_floor, walingest_start>>
       \/ /\ last_rec_lsn' = last_record_lsn
          /\ IF NoPreviousWal(last_record_lsn)
             THEN /\ WalReturn("Err")         \* "No previous WAL position"
                  /\ UNCHANGED <<startpoint, sk_pos, dec_floor, walingest_start>>
             ELSE /\ startpoint' = Startpoint(last_record_lsn)
                  /\ \/ /\ WalReturn("Err")   \* START_REPLICATION or WalIngest::new fails
                        /\ UNCHANGED <<sk_pos, dec_floor, walingest_start>>
                     \/ /\ WalStay("loop")
                        /\ sk_pos' = startpoint'
                        /\ dec_floor' = startpoint'
                        /\ walingest_start' = startpoint'
    /\ UNCHANGED <<last_record_lsn, disk_consistent_lsn, remote_index, connection_status,
                   events, listener_alive, cancelled, end_of_wal, caught_up,
                   last_rec_lsn_before_msg, w_msg, w_msgs, status_update,
                   remote_consistent, feedback, fb_last_rec_lsn, decoded_lsn, ingest_lsn>>
    /\ WalFrame

LoopFrame == UNCHANGED <<last_record_lsn, disk_consistent_lsn, remote_index,
                         listener_alive, cancelled, end_of_wal, startpoint,
                         remote_consistent, feedback, fb_last_rec_lsn, decoded_lsn,
                         ingest_lsn, walingest_start>>

(* walreceiver_connection.rs:171-180: cancellation, end of stream, stream error *)
CancellationChanged_Never(c) == FALSE

(* walreceiver_connection.rs:173-176: cancellation.changed() is ready once the signal fired *)
CancellationChanged(c) == c

LeaveLoop ==
    /\ w_pc = "loop"
    /\ \/ CancellationChanged(cancelled) /\ WalReturn("Ok")
       \/ WalReturn("Ok")                     \* the stream ended
       \/ WalReturn("Err")                    \* the stream yielded an error
    /\ UNCHANGED <<connection_status, events, caught_up, last_rec_lsn,
                   last_rec_lsn_before_msg, sk_pos, dec_floor, w_msg, w_msgs, status_update>>
    /\ LoopFrame
    /\ WalFrame

(* walreceiver_connection.rs:187-196 *)
StatusOnXLogData_Stale(status, msg) == status

StatusOnXLogData(status, msg) ==
    [status EXCEPT !.commit_lsn = Some(msg.wal_end),
                   !.streaming_lsn = Some(msg.wal_start + msg.len)]

(* walreceiver_connection.rs:197-200 *)
StatusOnKeepAlive(status, msg) == [status EXCEPT !.commit_lsn = Some(msg.wal_end)]

(* walreceiver_connection.rs:180-206, XLogData: status update published before processing *)
ReceiveXLogData ==
    /\ w_pc = "loop"
    /\ w_msgs < MaxMsgs
    /\ \E n \in 0..MaxChunk : \E wal_end \in {sk_pos + n, MaxLsn} :
        /\ sk_pos + n <= MaxLsn
        /\ w_msg' = [kind |-> "XLogData", wal_start |-> sk_pos, len |-> n,
                     wal_end |-> wal_end, reply |-> FALSE]
        /\ sk_pos' = sk_pos + n
    /\ w_msgs' = w_msgs + 1
    /\ last_rec_lsn_before_msg' = last_rec_lsn
    /\ connection_status' = StatusOnXLogData(connection_status, w_msg')
    /\ Publish(connection_status', "ingest")
    /\ UNCHANGED <<caught_up, last_rec_lsn, dec_floor, status_update>>
    /\ LoopFrame
    /\ WalFrame

KeepAliveUpdate_Always(reply_requested, lsn) == Some(lsn)

(* walreceiver_connection.rs:256-260 *)
KeepAliveUpdate(reply_requested, lsn) == IF reply_requested THEN Some(lsn) ELSE None

(* walreceiver_connection.rs:180-206 and 249-261, PrimaryKeepAlive *)
ReceiveKeepAlive ==
    /\ w_pc = "loop"
    /\ w_msgs < MaxMsgs
    /\ \E reply \in BOOLEAN, wal_end \in {sk_pos, MaxLsn} :
        w_msg' = [kind |-> "PrimaryKeepAlive", wal_start |-> sk_pos, len |-> 0,
                  wal_end |-> wal_end, reply |-> reply]
    /\ w_msgs' = w_msgs + 1
    /\ last_rec_lsn_before_msg' = last_rec_lsn
    /\ connection_status' = StatusOnKeepAlive(connection_status, w_msg')
    /\ Publish(connection_status', "after_msg")
    /\ status_update' = KeepAliveUpdate(w_msg'.reply, last_rec_lsn)
    /\ UNCHANGED <<caught_up, last_rec_lsn, sk_pos, dec_floor>>
    /\ LoopFrame
    /\ WalFrame

(* walreceiver_connection.rs:180-206 and 249-261: the safekeeper keeps sending, keepalives
   past the messages that are counted *)
KeepAliveFlood ==
    /\ w_pc = "loop"
    /\ w_msgs = MaxMsgs
    /\ \E reply \in BOOLEAN, wal_end \in {sk_pos, MaxLsn} :
        w_msg' = [kind |-> "PrimaryKeepAlive", wal_start |-> sk_pos, len |-> 0,
                  wal_end |-> wal_end, reply |-> reply]
    /\ last_rec_lsn_before_msg' = last_rec_lsn
    /\ connection_status' = StatusOnKeepAlive(connection_status, w_msg')
    /\ Publish(connection_status', "after_msg")
    /\ status_update' = KeepAliveUpdate(w_msg'.reply, last_rec_lsn)
    /\ UNCHANGED <<caught_up, last_rec_lsn, sk_pos, dec_floor, w_msgs>>
    /\ LoopFrame
    /\ WalFrame

(* walreceiver_connection.rs:213-214 *)
EndLsn(msg) == msg.wal_start + msg.len

(* walreceiver_connection.rs:223-238: one record out of poll_decode is ingested *)
IngestRecord ==
    /\ w_pc = "ingest"
    /\ \E record_end \in (dec_floor + 1)..EndLsn(w_msg) :
       \E lsn \in {DecodedLsn(record_end), record_end} :   \* what poll_decode reports
        /\ decoded_lsn' = lsn
        /\ IF ~EnsureAligned(lsn)
           THEN /\ WalReturn("Err")           \* ensure!(lsn.is_aligned())
                /\ UNCHANGED <<last_record_lsn, last_rec_lsn, dec_floor, ingest_lsn>>
           ELSE /\ ingest_lsn' = lsn
                /\ \/ /\ WalReturn("Err")     \* ingest_record fails
                      /\ UNCHANGED <<last_record_lsn, last_rec_lsn, dec_floor>>
                   \/ /\ WalStay("ingest")
                      /\ last_record_lsn' = lsn   \* the modification is committed at lsn
                      /\ last_rec_lsn' = lsn
                      /\ dec_floor' = lsn
    /\ UNCHANGED <<disk_consistent_lsn, remote_index, connection_status, events,
                   listener_alive, cancelled, end_of_wal, caught_up,
                   last_rec_lsn_before_msg, startpoint, sk_pos, w_msg, w_msgs,
                   status_update, remote_consistent, feedback, fb_last_rec_lsn,
                   walingest_start>>
    /\ WalFrame

(* walreceiver_connection.rs:246 *)
XLogDataUpdate(endlsn, rec_lsn) == Some(endlsn)

(* walreceiver_connection.rs:223 and 241-246: poll_decode has no further record *)
IngestEnd ==
    /\ w_pc = "ingest"
    /\ \/ /\ WalReturn("Err")                 \* poll_decode fails
          /\ UNCHANGED <<dec_floor, caught_up, status_update>>
       \/ /\ WalStay("after_msg")
          /\ dec_floor' = Max(dec_floor, EndLsn(w_msg))
          /\ caught_up' = (caught_up \/ EndLsn(w_msg) >= end_of_wal)
          /\ status_update' = XLogDataUpdate(EndLsn(w_msg), last_rec_lsn)
    /\ UNCHANGED <<connection_status, events, last_rec_lsn, last_rec_lsn_before_msg,
                   sk_pos, w_msg, w_msgs>>
    /\ LoopFrame
    /\ WalFrame

FirstWalProcessed_NoIngest(status, rec_lsn, before) == ~status.has_processed_wal

(* walreceiver_connection.rs:266 *)
FirstWalProcessed(status, rec_lsn, before) == ~status.has_processed_wal /\ rec_lsn > before

(* walreceiver_connection.rs:266-283 *)
AfterMessage ==
    /\ w_pc = "after_msg"
    /\ LET next == IF status_update = None THEN "loop" ELSE "feedback" IN
       IF FirstWalProcessed(connection_status, last_rec_lsn, last_rec_lsn_before_msg)
       THEN /\ connection_status' = [connection_status EXCEPT !.has_processed_wal = TRUE]
            /\ IF listener_alive
               THEN /\ events' = Some(connection_status')
                    /\ \/ WalStay(next)
                       \/ WalReturn("Err")    \* check_checkpoint_distance fails
               ELSE /\ UNCHANGED events
                    /\ ListenerDropped
       ELSE /\ UNCHANGED <<connection_status, events>>
            /\ \/ WalStay(next)
               \/ WalReturn("Err")            \* check_checkpoint_distance fails
    /\ UNCHANGED <<caught_up, last_rec_lsn, last_rec_lsn_before_msg, sk_pos, dec_floor,
                   w_msg, w_msgs, status_update>>
    /\ LoopFrame
    /\ WalFrame

(* walreceiver_connection.rs:294-296 *)
RemoteConsistentLsn(entry) == IF entry.present THEN entry.lsn ELSE 0

(* walreceiver_connection.rs:284-296 *)
ReadRemoteIndex ==
    /\ w_pc = "feedback"
    /\ remote_consistent' = RemoteConsistentLsn(remote_index)
    /\ WalStay("send")
    /\ UNCHANGED <<last_record_lsn, disk_consistent_lsn, remote_index, connection_status,
                   events, listener_alive, cancelled, end_of_wal, caught_up, last_rec_lsn,
                   last_rec_lsn_before_msg, startpoint, sk_pos, dec_floor, w_msg, w_msgs,
                   status_update, feedback, fb_last_rec_lsn, decoded_lsn, ingest_lsn,
                   walingest_start>>
    /\ WalFrame

(* walreceiver_connection.rs:298-328 *)
ReplicationFeedback(last_lsn, flush, remote, trigger) ==
    [ps_writelsn |-> last_lsn, ps_flushlsn |-> flush, ps_applylsn |-> remote,
     trigger |-> trigger]

(* walreceiver_connection.rs:298-337 *)
SendFeedback ==
    /\ w_pc = "send"
    /\ \/ /\ WalReturn("Err")                 \* logical size or the send fails
          /\ UNCHANGED <<feedback, fb_last_rec_lsn>>
       \/ /\ WalStay("loop")
          /\ feedback' = Some(ReplicationFeedback(status_update[1], disk_consistent_lsn,
                                                  remote_consistent, w_msg.kind))
          /\ fb_last_rec_lsn' = last_rec_lsn
    /\ UNCHANGED <<last_record_lsn, disk_consistent_lsn, remote_index, connection_status,
                   events, listener_alive, cancelled, end_of_wal, caught_up, last_rec_lsn,
                   last_rec_lsn_before_msg, startpoint, sk_pos, dec_floor, w_msg, w_msgs,
                   status_update, remote_consistent, decoded_lsn, ingest_lsn,
                   walingest_start>>
    /\ WalFrame

EnvFrame == UNCHANGED <<w_pc, w_result, connection_status, events, gauge, gauge_guard,
                        send_failed,
                        end_of_wal, caught_up, last_rec_lsn, last_rec_lsn_before_msg,
                        startpoint, sk_pos, dec_floor, w_msg, w_msgs, status_update,
                        remote_consistent, feedback, fb_last_rec_lsn, decoded_lsn,
                        ingest_lsn, walingest_start>>

(* a local checkpoint makes everything ingested so far durable *)
Checkpoint ==
    /\ w_pc # "done"
    /\ disk_consistent_lsn < last_record_lsn
    /\ disk_consistent_lsn' = last_record_lsn
    /\ UNCHANGED <<last_record_lsn, remote_index, listener_alive, cancelled>>
    /\ EnvFrame
    /\ WalFrame

(* the sync engine publishes the checkpoint: the remote index entry follows the local one *)
RemoteIndexUpdate ==
    /\ w_pc # "done"
    /\ ~remote_index.present \/ remote_index.lsn < disk_consistent_lsn
    /\ remote_index' = [present |-> TRUE, lsn |-> disk_consistent_lsn]
    /\ UNCHANGED <<last_record_lsn, disk_consistent_lsn, listener_alive, cancelled>>
    /\ EnvFrame
    /\ WalFrame

(* the connection manager drops its receiver of the events channel *)
DropListener ==
    /\ w_pc # "done"
    /\ listener_alive
    /\ listener_alive' = FALSE
    /\ UNCHANGED <<last_record_lsn, disk_consistent_lsn, remote_index, cancelled>>
    /\ EnvFrame
    /\ WalFrame

(* the cancellation signal fires *)
Cancel ==
    /\ w_pc # "done"
    /\ ~cancelled
    /\ cancelled' = TRUE
    /\ UNCHANGED <<last_record_lsn, disk_consistent_lsn, remote_index, listener_alive>>
    /\ EnvFrame
    /\ WalFrame

(* ------------------------------------------------------------------ *)
(* download_index_parts, gather_tenant_timelines_index_parts           *)
(* ------------------------------------------------------------------ *)

Tenants == {"tn1", "tn2"}
Timelines == 1..MaxTimelines
Keys == Tenants \X Timelines

(* Result<IndexPart, DownloadError> of download_index_part *)
Outcomes == {"Ok", "NotFound", "Other"}

(* no entry for the tenant in the HashMap *)
NoParts == [variant |-> "Absent", present |-> {}, missing |-> {}]

(* download.rs:58-62: Default for TenantIndexParts *)
DefaultParts == [variant |-> "Present", present |-> {}, missing |-> {}]

(* entry(tenant_id).or_default() *)
OrDefault(parts) == IF parts.variant = "Absent" THEN DefaultParts ELSE parts

(* download.rs:42-56 *)
AddPoisoned(parts, timeline_id) ==
    IF parts.variant = "Poisoned"
    THEN [parts EXCEPT !.missing = @ \cup {timeline_id}]
    ELSE [variant |-> "Poisoned", present |-> parts.present, missing |-> {timeline_id}]

InsertPart_Resets(parts, timeline_id) ==
    [variant |-> "Present", present |-> parts.present \cup {timeline_id}, missing |-> {}]

(* download.rs:79-86: either variant takes the part into its `present` map *)
InsertPart(parts, timeline_id) == [parts EXCEPT !.present = @ \cup {timeline_id}]

IsBenign_Never(outcome) == FALSE

(* download.rs:92-94 *)
IsBenign(outcome) == outcome = "NotFound"

(* download.rs:76-104: what one consumed result does to the tenant's entry *)
Accumulate(parts, timeline_id, outcome) ==
    IF outcome = "Ok" THEN InsertPart(OrDefault(parts), timeline_id)
    ELSE IF IsBenign(outcome) THEN parts
    ELSE AddPoisoned(OrDefault(parts), timeline_id)

NoGatherResult == [variant |-> "none", cause |-> "none", parts |-> {}, missing |-> {}]

IndexIdle ==
    /\ i_pc = "idle"
    /\ index_parts' = [t \in Tenants |-> NoParts]
    /\ i_results' = [k \in Keys |-> "none"]
    /\ i_late' = {}

IndexFrame == UNCHANGED <<shared_vars, download_vars, upload_vars, wal_vars, codec_vars,
                          safekeeper_vars,
                          published, p_prev, p_calls, p_index_part, p_result>>

(* download.rs:64-74: the futures of all keys are created *)
DownloadIndexParts ==
    /\ i_mode = "bulk"
    /\ IndexIdle
    /\ \E keys \in SUBSET Keys : i_pending' = keys
    /\ i_pc' = "collect"
    /\ UNCHANGED <<i_mode, i_tenant, i_result>>
    /\ IndexFrame

(* download.rs:117-122 with get_timeline_sync_ids (367-410), then 64-74 *)
GatherCall ==
    /\ i_mode = "gather"
    /\ IndexIdle
    /\ \/ /\ i_result' = [NoGatherResult EXCEPT !.variant = "Err", !.cause = "listing"]
          /\ i_pc' = "returned"           \* the listing failed or was empty
          /\ UNCHANGED i_pending
       \/ \E timelines \in (SUBSET Timelines) \ {{}} :
          /\ i_pending' = {<<i_tenant, tl>> : tl \in timelines}
          /\ i_pc' = "collect"
          /\ UNCHANGED i_result
    /\ UNCHANGED <<i_mode, i_tenant>>
    /\ IndexFrame

(* download.rs:76-104: the loop consumes one finished future *)
CollectIndexPart ==
    /\ i_pc = "collect"
    /\ \E id \in i_pending : \E outcome \in Outcomes :
        /\ i_pending' = i_pending \ {id}
        /\ i_results' = [i_results EXCEPT ![id] = outcome]
        /\ i_late' = IF index_parts[id[1]].variant = "Poisoned"
                     THEN i_late \cup {id} ELSE i_late
        /\ index_parts' = [index_parts EXCEPT ![id[1]] = Accumulate(@, id[2], outcome)]
    /\ UNCHANGED <<i_mode, i_tenant, i_pc, i_result>>
    /\ IndexFrame

(* download.rs:106 *)
DownloadIndexPartsReturn ==
    /\ i_mode = "bulk"
    /\ i_pc = "collect"
    /\ i_pending = {}
    /\ i_pc' = "returned"
    /\ UNCHANGED <<i_mode, i_tenant, i_pending, index_parts, i_results, i_late, i_result>>
    /\ IndexFrame

(* download.rs:122-131: the tenant's entry of the returned map decides the result *)
GatherResult(parts) ==
    IF parts.variant = "Absent"
    THEN [NoGatherResult EXCEPT !.variant = "Err", !.cause = "Missing tenant index parts"]
    ELSE IF parts.variant = "Poisoned"
    THEN [NoGatherResult EXCEPT !.variant = "Err", !.cause = "Poisoned",
                                !.missing = parts.missing]
    ELSE [NoGatherResult EXCEPT !.variant = "Ok", !.parts = parts.present]

(* download.rs:106, 122-131; index_parts keeps the map download_index_parts returned *)
GatherReturn ==
    /\ i_mode = "gather"
    /\ i_pc = "collect"
    /\ i_pending = {}
    /\ i_pc' = "returned"
    /\ i_result' = GatherResult(index_parts[i_tenant])
    /\ UNCHANGED <<i_mode, i_tenant, i_pending, index_parts, i_results, i_late>>
    /\ IndexFrame

(* ------------------------------------------------------------------ *)
(* upload_index_part                                                   *)
(* ------------------------------------------------------------------ *)

IndexLsns == 0..MaxIndexLsn

(* IndexPart: its disk_consistent_lsn *)
IndexPart(lsn) == [disk_consistent_lsn |-> lsn]

(* upload.rs:21-43: serialize, then upload_storage_object to the index part path *)
UploadIndexPart ==
    /\ p_calls < MaxCalls
    /\ p_calls' = p_calls + 1
    /\ p_prev' = published
    /\ \E lsn \in IndexLsns :
        /\ p_index_part' = IndexPart(lsn)
        /\ \/ /\ published' = Some(IndexPart(lsn))
              /\ p_result' = "Ok"
           \/ /\ UNCHANGED published        \* serialization or the upload failed
              /\ p_result' = "Err"
    /\ UNCHANGED <<shared_vars, download_vars, upload_vars, wal_vars, codec_vars,
                   safekeeper_vars,
                   i_mode, i_tenant, i_pc, i_pending, index_parts, i_results, i_late, i_result>>

(* the caller runs the task again with the data a successful run returned *)
DownloadAgain ==
    /\ d_pc = "returned"
    /\ d_result = "Successful"
    /\ d_pc' = "idle"
    /\ UNCHANGED <<shared_vars, download_data, d_task, d_collected, undo, errors_happened,
                   temp_files, failpoint_armed, d_result, d_pre, d_pre_queue, d_pre_local,
                   d_fetched, d_fsync_failed, d_prev_truncated, d_prev, upload_vars,
                   wal_vars, index_vars, codec_vars, safekeeper_vars>>

(* ------------------------------------------------------------------ *)
(* index part codec: upload_index_part and download_index_part         *)
(* ------------------------------------------------------------------ *)

(* IndexPart::new *)
NewIndexPart(stored, missing, lsn, bytes) ==
    [stored_files |-> stored, missing_files |-> missing,
     disk_consistent_lsn |-> lsn, metadata_bytes |-> bytes]

MetadataBytes == {<<>>, <<7>>, <<9, 7>>}

IndexPartValues ==
    {NewIndexPart(st, mi, lsn, by) :
        st \in SUBSET Layers, mi \in SUBSET Layers, lsn \in IndexLsns, by \in MetadataBytes}

IndexPartFields == {"stored_files", "missing_files", "disk_consistent_lsn", "metadata_bytes"}

(* the tokens of the serialized form: field names and the values that follow them *)
FieldToken(name) == [tok |-> "key", name |-> name, val |-> 0]
ValueToken(v) == [tok |-> "item", name |-> "", val |-> v]

RECURSIVE SortedSeq(_)
SortedSeq(S) ==
    IF S = {} THEN <<>>
    ELSE LET m == CHOOSE x \in S : \A y \in S : x <= y
         IN <<m>> \o SortedSeq(S \ {m})

ValueTokens(seq) == [i \in 1..Len(seq) |-> ValueToken(seq[i])]

(* serde_json::to_vec(&index_part), upload.rs:27-28 *)
Encode(ip) ==
    <<FieldToken("stored_files")>> \o ValueTokens(SortedSeq(ip.stored_files))
    \o <<FieldToken("missing_files")>> \o ValueTokens(SortedSeq(ip.missing_files))
    \o <<FieldToken("disk_consistent_lsn"), ValueToken(ip.disk_consistent_lsn)>>
    \o <<FieldToken("metadata_bytes")>> \o ValueTokens(ip.metadata_bytes)

FieldPositions(bytes, name) ==
    {i \in 1..Len(bytes) : bytes[i].tok = "key" /\ bytes[i].name = name}

(* the values that follow the field name, up to the next field name *)
FieldValues(bytes, name) ==
    LET i == CHOOSE j \in FieldPositions(bytes, name) : TRUE
        later == {j \in (i + 1)..Len(bytes) : bytes[j].tok = "key"}
        last == IF later = {} THEN Len(bytes)
                ELSE (CHOOSE j \in later : \A k \in later : j <= k) - 1
    IN [k \in 1..(last - i) |-> bytes[i + k].val]

SeqRange(seq) == {seq[i] : i \in 1..Len(seq)}

(* serde_json::from_slice succeeds, download.rs:160 *)
Decodable(bytes) ==
    /\ \A name \in IndexPartFields : Cardinality(FieldPositions(bytes, name)) = 1
    /\ Len(FieldValues(bytes, "disk_consistent_lsn")) = 1

(* serde_json::from_slice(&index_part_bytes), download.rs:160 *)
Decode(bytes) ==
    NewIndexPart(SeqRange(FieldValues(bytes, "stored_files")),
                 SeqRange(FieldValues(bytes, "missing_files")),
                 FieldValues(bytes, "disk_consistent_lsn")[1],
                 FieldValues(bytes, "metadata_bytes"))

ObjectNames == {"index_part.json", "metadata"}
StoragePaths == Keys \X ObjectNames
EmptyStorage == [path \in StoragePaths |-> None]

(* conf.metadata_path(timeline_id, tenant_id) *)
MetadataPath(id) == <<id, "metadata">>

IndexPartPath_NoFileName(id) == MetadataPath(id)

(* upload.rs:31-33 and download.rs:140-142: .with_file_name(IndexPart::FILE_NAME) *)
IndexPartPath(id) == <<MetadataPath(id)[1], "index_part.json">>

NoCodecResult == [op |-> "none", variant |-> "none", value |-> NewIndexPart({}, {}, 0, <<>>)]
CodecResult(op, variant, value) == [op |-> op, variant |-> variant, value |-> value]

CodecFrame == UNCHANGED <<shared_vars, download_vars, upload_vars, wal_vars, index_vars,
                          safekeeper_vars>>

(* upload.rs:27-29: upload_index_part is called and serializes its argument *)
SerializeIndexPart ==
    /\ c_pc \in {"idle", "uploaded"}
    /\ c_uploads < MaxCalls
    /\ c_prev_store' = c_store
    /\ \/ /\ c_bytes' = Encode(c_index_part)
          /\ c_pc' = "serialized"
          /\ UNCHANGED c_result
       \/ /\ c_pc' = "done"                          \* to_vec fails
          /\ c_result' = CodecResult("upload", "Err", c_index_part)
          /\ UNCHANGED c_bytes
    /\ UNCHANGED <<c_id, c_index_part, c_store, c_uploads, c_download>>
    /\ CodecFrame

(* upload.rs:31-42: upload_storage_object to the index part path *)
PutIndexPart ==
    /\ c_pc = "serialized"
    /\ \/ /\ c_store' = [c_store EXCEPT ![IndexPartPath(c_id)] = Some(c_bytes)]
          /\ c_uploads' = c_uploads + 1
          /\ c_pc' = "uploaded"
          /\ c_result' = CodecResult("upload", "Ok", c_index_part)
       \/ /\ c_pc' = "done"                          \* the upload fails
          /\ c_result' = CodecResult("upload", "Err", c_index_part)
          /\ UNCHANGED <<c_store, c_uploads>>
    /\ UNCHANGED <<c_id, c_index_part, c_bytes, c_prev_store, c_download>>
    /\ CodecFrame

(* download.rs:140-156: download_storage_object and the copy into index_part_bytes *)
FetchIndexPart ==
    /\ c_pc \in {"idle", "uploaded"}
    /\ IF c_store[IndexPartPath(c_id)] = None
       THEN /\ c_pc' = "done"
            /\ c_result' = CodecResult("download", "NotFound", NoCodecResult.value)
            /\ UNCHANGED c_download
       ELSE \/ /\ c_download' = c_store[IndexPartPath(c_id)][1]
               /\ c_pc' = "downloaded"
               /\ UNCHANGED c_result
            \/ /\ c_pc' = "done"                     \* the download or the copy fails
               /\ c_result' = CodecResult("download", "Other", NoCodecResult.value)
               /\ UNCHANGED c_download
    /\ UNCHANGED <<c_id, c_index_part, c_bytes, c_store, c_prev_store, c_uploads>>
    /\ CodecFrame

(* download.rs:160-175: deserialize and return *)
DeserializeIndexPart ==
    /\ c_pc = "downloaded"
    /\ c_pc' = "done"
    /\ c_result' = IF Decodable(c_download)
                   THEN CodecResult("download", "Ok", Decode(c_download))
                   ELSE CodecResult("download", "Other", NoCodecResult.value)
    /\ UNCHANGED <<c_id, c_index_part, c_bytes, c_store, c_prev_store, c_uploads, c_download>>
    /\ CodecFrame

(* ------------------------------------------------------------------ *)
(* properties of download_timeline_layers                              *)
(* ------------------------------------------------------------------ *)

Range(seq) == {seq[i] : i \in 1..Len(seq)}

DownloadReturned(variant) == d_pc = "returned" /\ d_result = variant

DownloadOk == {l \in Layers : d_task[l] = "ok"}
DownloadErr == {l \in Layers : d_task[l] = "err"}

(* C1: a Successful download returns layers_to_skip equal to the layers_to_skip
   passed in united with the remote timeline's stored_files. *)
C1_SkipIsUnion ==
    DownloadReturned("Successful") =>
        download_data.data.layers_to_skip =
            d_pre.data.layers_to_skip \cup remote_timeline.stored_files

C1_Witness ==
    /\ DownloadReturned("Successful")
    /\ d_fetched # {}
    /\ d_pre.data.layers_to_skip \ remote_timeline.stored_files # {}

(* C2: after a Successful download every file of stored_files minus the
   layers_to_skip passed in exists at its destination path. *)
C2_DownloadedExist ==
    DownloadReturned("Successful") =>
        \A l \in remote_timeline.stored_files \ d_pre.data.layers_to_skip :
            Exists(local_files, l)

C2_Witness ==
    /\ DownloadReturned("Successful")
    /\ \E l \in d_fetched : ~Exists(d_pre_local, l) /\ temp_files[l] = "absent"

(* C6: if a per-layer download failed or the timeline-directory fsync failed, the
   call bumps retries by exactly one, pushes exactly one Download task with the
   updated data for the same sync_id and returns FailedAndRescheduled; without
   such an error a call that was not aborted returns Successful. *)
C6_FailureReschedules ==
    (d_pc = "returned" /\ d_result # "Abort") =>
        LET failed == DownloadErr # {} \/ d_fsync_failed
            skip == IF d_fsync_failed
                    THEN d_pre.data.layers_to_skip
                    ELSE d_pre.data.layers_to_skip \cup DownloadOk
        IN  IF failed
            THEN /\ d_result = "FailedAndRescheduled"
                 /\ download_data.retries = d_pre.retries + 1
                 /\ sync_queue = Append(d_pre_queue, DownloadTask(sync_id,
                        [retries |-> d_pre.retries + 1, data |-> [layers_to_skip |-> skip]]))
            ELSE /\ d_result = "Successful"
                 /\ sync_queue = d_pre_queue

C6_Witness ==
    /\ DownloadReturned("FailedAndRescheduled")
    /\ DownloadErr # {}
    /\ DownloadOk # {}
    /\ ~d_fsync_failed
    /\ d_pre_queue # <<>>

(* C8: when the timeline-directory fsync fails, the entries added to layers_to_skip
   during the call are removed again: the rescheduled task carries exactly the
   layers_to_skip the call started with, also when every per-layer download
   succeeded. *)
C8_FsyncFailureRollsBack ==
    (d_pc = "returned" /\ d_fsync_failed) =>
        /\ d_result = "FailedAndRescheduled"
        /\ sync_queue # <<>>
        /\ sync_queue[Len(sync_queue)].kind = "Download"
        /\ sync_queue[Len(sync_queue)].data.data.layers_to_skip = d_pre.data.layers_to_skip

C8_Witness ==
    /\ d_pc = "returned"
    /\ d_fsync_failed
    /\ DownloadErr = {}
    /\ DownloadOk # {}
    /\ d_pre.data.layers_to_skip # {}

(* C21: a run returns Successful with layers newly in layers_to_skip only if its
   timeline-directory fsync succeeded with those layers' files in place; a run whose
   directory fsync failed is rescheduled without the layers it had added, which are
   therefore in the to-download set of the rescheduled task. *)
C21_FsyncBeforeSuccess ==
    /\ DownloadReturned("Successful") =>
          /\ ~d_fsync_failed
          /\ \A l \in download_data.data.layers_to_skip \ d_pre.data.layers_to_skip :
                Exists(local_files, l) /\ l \in d_collected
    /\ (d_pc = "returned" /\ d_fsync_failed) =>
          /\ d_result = "FailedAndRescheduled"
          /\ \A l \in undo :
                /\ l \notin sync_queue[Len(sync_queue)].data.data.layers_to_skip
                /\ l \in LayersToDownload(remote_timeline, sync_queue[Len(sync_queue)].data.data)

C21_Witness ==
    /\ DownloadReturned("FailedAndRescheduled")
    /\ d_fsync_failed
    /\ ~errors_happened
    /\ undo # {}
    /\ d_pre.retries > 0

AlreadyLocal ==
    {l \in LayersToDownload(remote_timeline, d_pre.data) : Exists(d_pre_local, l)}

(* C22: for every layer of stored_files minus layers_to_skip whose destination file
   already exists, the call fetches nothing, creates no temp file, leaves the local
   file untouched and returns with the layer's path in layers_to_skip. *)
C22_Original ==
    (d_pc = "returned" /\ d_result # "Abort") =>
        \A l \in AlreadyLocal :
            /\ l \notin d_fetched
            /\ temp_files[l] = "absent"
            /\ local_files[l] = d_pre_local[l]
            /\ l \in download_data.data.layers_to_skip

(* C22 amended: such a layer is not fetched, gets no temp file and keeps its local
   file; its path is added to layers_to_skip when its future is collected and is in
   the returned layers_to_skip unless the timeline-directory fsync failed, in which
   case the path is removed again with the other additions of the run. *)
C22_ExistingLayerSkipped ==
    /\ (d_pc \in {"tasks", "returned"} /\ d_result # "Abort") =>
          \A l \in AlreadyLocal :
              /\ l \notin d_fetched
              /\ temp_files[l] = "absent"
              /\ local_files[l] = d_pre_local[l]
              /\ d_task[l] \in {"spawned", "ok"}
              /\ (d_pc = "tasks" /\ l \in d_collected) =>
                    l \in download_data.data.layers_to_skip
    /\ (d_pc = "returned" /\ d_result # "Abort") =>
          \A l \in AlreadyLocal :
              l \in download_data.data.layers_to_skip <=> ~d_fsync_failed

C22_Witness ==
    /\ d_pc = "returned"
    /\ d_fsync_failed
    /\ \E l \in AlreadyLocal : l \notin download_data.data.layers_to_skip
    /\ d_fetched # {}

(* C9: without a remote timeline, or with one that does not await download, the call
   returns Abort: nothing is fetched, no file is touched, retries are not bumped and
   nothing is pushed. *)
C9_AbortIsInert ==
    (d_pc = "returned" /\ (~remote_timeline.present \/ ~remote_timeline.awaits_download)) =>
        /\ d_result = "Abort"
        /\ d_fetched = {}
        /\ download_data = d_pre
        /\ sync_queue = d_pre_queue
        /\ local_files = d_pre_local
        /\ \A l \in Layers : d_task[l] = "none" /\ temp_files[l] = "absent"

C9_Witness ==
    /\ DownloadReturned("Abort")
    /\ remote_timeline.present
    /\ remote_timeline.stored_files \ download_data.data.layers_to_skip # {}
    /\ sync_queue # <<>>

(* ------------------------------------------------------------------ *)
(* properties of upload_timeline_layers                                *)
(* ------------------------------------------------------------------ *)

UploadReturned(variant) == u_pc = "returned" /\ u_result.variant = variant

SubmittedLayers == u_pre.data.layers_to_upload \ AlreadyUploadedLayers(remote_timeline)

(* C3 as stated: a Successful upload returns uploaded_layers containing every layer of
   layers_to_upload minus the remote stored_files. *)
C3_Original ==
    UploadReturned("Successful") =>
        SubmittedLayers \subseteq upload_data.data.uploaded_layers

(* C3 amended: a Successful upload returns uploaded_layers containing every layer of
   layers_to_upload minus the remote stored_files, except the layers that were dropped
   because their upload failed and their path no longer existed locally. *)
C3_UploadedSuperset ==
    UploadReturned("Successful") =>
        (SubmittedLayers \ u_dropped) \subseteq upload_data.data.uploaded_layers

C3_Witness ==
    /\ UploadReturned("Successful")
    /\ u_dropped # {}
    /\ SubmittedLayers \ u_dropped # {}

(* C4: a Successful upload returns an empty layers_to_upload, whatever the remote
   timeline's stored_files were. *)
C4_Original ==
    UploadReturned("Successful") => upload_data.data.layers_to_upload = {}

(* C5: a layer whose open failed because its path no longer exists is removed from
   layers_to_upload, is not added to uploaded_layers, gets no remote object, counts
   no error, and the call is Successful if every other layer uploaded. *)
C5_GcRace ==
    /\ \A l \in u_open_missing \cap u_collected :
        /\ l \notin upload_data.data.layers_to_upload
        /\ l \in upload_data.data.uploaded_layers => l \in u_pre.data.uploaded_layers
        /\ l \notin u_upload_calls
        /\ l \in remote_objects => l \in u_pre_objects
        /\ l \notin Range(errors)
    /\ (/\ u_pc = "returned"
        /\ u_open_missing # {}
        /\ \A l \in Layers \ u_open_missing : u_task[l] \in {"none", "ok"})
       => u_result.variant = "Successful"

C5_Witness ==
    /\ UploadReturned("Successful")
    /\ u_open_missing # {}
    /\ \E l \in Layers \ u_open_missing : u_task[l] = "ok"

(* C7: once all per-layer uploads are collected the result is Successful iff the
   error list is empty; otherwise retries is bumped by exactly one, exactly one Upload
   task with the updated data is pushed for the same sync_id and FailedAndRescheduled
   carries the errors. *)
C7_ErrorsDecideResult ==
    (u_pc = "returned" /\ u_collected # {}) =>
        IF errors = <<>>
        THEN /\ u_result.variant = "Successful"
             /\ upload_data.retries = u_pre.retries
             /\ sync_queue = u_pre_queue
        ELSE /\ u_result = UploadedTimeline("FailedAndRescheduled", errors)
             /\ upload_data.retries = u_pre.retries + 1
             /\ sync_queue = Append(u_pre_queue, UploadTask(sync_id, upload_data))

C7_Witness ==
    /\ UploadReturned("FailedAndRescheduled")
    /\ Len(errors) >= 1
    /\ upload_data.data.uploaded_layers # {}
    /\ u_pre_queue # <<>>

(* C24: upload_timeline_layers starts an upload exactly for the layers of
   layers_to_upload that are not in the remote timeline's stored_files (all of them
   without a remote timeline) and never calls the remote upload for another layer;
   when that set is empty it uploads nothing, increments NO_LAYERS_UPLOAD once and
   returns Successful. *)
C24_UploadsOnlyTheDifference ==
    /\ u_pc \in {"tasks", "returned"} =>
          /\ {l \in Layers : u_task[l] # "none"} = SubmittedLayers
          /\ u_upload_calls \subseteq SubmittedLayers
          /\ remote_objects \ u_pre_objects \subseteq SubmittedLayers
          /\ \A l \in AlreadyUploadedLayers(remote_timeline) : l \notin u_upload_calls
          /\ \A l \in SubmittedLayers : u_task[l] = "ok" => l \in u_upload_calls
    /\ u_pc = "returned" =>
          IF SubmittedLayers = {}
          THEN /\ u_upload_calls = {}
               /\ remote_objects = u_pre_objects
               /\ no_layers_upload = 1
               /\ u_result.variant = "Successful"
               /\ upload_data = u_pre
          ELSE no_layers_upload = 0

C24_Witness ==
    /\ u_pc = "returned"
    /\ remote_timeline.present
    /\ u_pre.data.layers_to_upload \cap remote_timeline.stored_files # {}
    /\ u_upload_calls # {}
    /\ u_upload_calls = SubmittedLayers

(* C25: upload_timeline_layers never changes the task's metadata: the data it
   returns, in every outcome, and the task it pushes on FailedAndRescheduled carry the
   metadata the call was entered with, None staying None. *)
C25_MetadataPreserved ==
    /\ u_pc \in {"tasks", "returned"} =>
          upload_data.data.metadata = u_pre.data.metadata
    /\ UploadReturned("FailedAndRescheduled") =>
          /\ sync_queue # <<>>
          /\ sync_queue[Len(sync_queue)].kind = "Upload"
          /\ sync_queue[Len(sync_queue)].data.data.metadata = u_pre.data.metadata

C25_Witness ==
    /\ UploadReturned("FailedAndRescheduled")
    /\ u_pre.data.metadata # "None"
    /\ u_dropped # {}

(* C26: a layer whose remote upload call failed, or whose failure is of the Other
   kind, is recorded in errors: the call returns FailedAndRescheduled and the layer is
   still in layers_to_upload, whatever happened to the local file afterwards; only an
   open failure of a path that no longer exists is exempt. *)
C26_Original ==
    u_pc = "returned" =>
        \A l \in Layers :
            (u_task[l] = "Other" \/ (u_task[l] = "MissingLocalFile" /\ l \in u_upload_calls)) =>
                /\ l \in Range(errors)
                /\ u_result.variant = "FailedAndRescheduled"
                /\ l \in upload_data.data.layers_to_upload

(* C36: a rescheduled task carries the progress made: after a download run that
   failed with its directory fsync succeeding, the pushed task's layers_to_skip is the
   previous one plus the layers downloaded or found locally in the run, without the
   failed ones; after a failed upload run, every layer uploaded in the run is in
   uploaded_layers and not in layers_to_upload of the pushed task, and every layer whose
   upload failed is still in its layers_to_upload. *)
C36_Original ==
    /\ (DownloadReturned("FailedAndRescheduled") /\ ~d_fsync_failed) =>
          LET pushed == sync_queue[Len(sync_queue)].data.data IN
          /\ pushed.layers_to_skip = d_pre.data.layers_to_skip \cup DownloadOk
          /\ pushed.layers_to_skip \cap DownloadErr = {}
    /\ UploadReturned("FailedAndRescheduled") =>
          LET pushed == sync_queue[Len(sync_queue)].data.data
              uploaded == {l \in Layers : u_task[l] = "ok"}
              failed == {l \in Layers : \/ u_task[l] = "Other"
                                        \/ u_task[l] = "MissingLocalFile" /\ l \in u_upload_calls}
          IN
          /\ uploaded \subseteq pushed.uploaded_layers
          /\ uploaded \cap pushed.layers_to_upload = {}
          /\ failed \subseteq pushed.layers_to_upload

(* a remote fetch, a file operation or the directory fsync fails in this step *)
DownloadFails ==
    \/ \E l \in Layers : d_task[l] # "err" /\ d_task'[l] = "err"
    \/ ~d_fsync_failed /\ d_fsync_failed'

SuccessfulWithAllLayers ==
    /\ DownloadReturned("Successful")
    /\ remote_timeline.stored_files \subseteq download_data.data.layers_to_skip

(* the task has failed as often as the sync loop of the model runs a task again *)
RetriesExhausted == download_data.retries >= MaxRetries

(* a run of the task ends as failed in this step *)
FailedRunEnds == d_pc = "tasks" /\ d_pc' = "returned" /\ d_result' # "Successful"

(* C38: for a download task on a timeline that awaits download whose pushed tasks are
   popped and run again, if from some point on no remote fetch, file operation or
   directory fsync fails, the task eventually returns Successful with layers_to_skip
   containing stored_files (within the retries the sync loop allows); each failed run
   increases retries by exactly one and pushes the task again, and the task leaves
   the queue only to be run. *)
C38_RetryLiveness ==
    /\ (<>[][~DownloadFails]_vars) => <>(SuccessfulWithAllLayers \/ RetriesExhausted)
    /\ [][/\ FailedRunEnds =>
                /\ d_result' = "FailedAndRescheduled"
                /\ download_data'.retries = download_data.retries + 1
                /\ sync_queue' = Append(sync_queue, DownloadTask(sync_id, download_data'))
          /\ Len(sync_queue') < Len(sync_queue) =>
                /\ d_pc' = "idle"
                /\ \E i \in 1..Len(sync_queue) :
                      sync_queue[i] = DownloadTask(sync_id', download_data')
          /\ d_result' \in {"none", "Abort", "Successful", "FailedAndRescheduled"}]_vars

C38_Witness ==
    /\ SuccessfulWithAllLayers
    /\ download_data.retries = 1
    /\ d_pre.retries = 1
    /\ d_fetched # {}
    /\ Len(sync_queue) = 1

(* C33: when stored_files - layers_to_skip is empty, download_timeline_layers returns
   Successful in one step that changes neither the data, the local files, the temp
   files nor the queue; a Successful run leaves stored_files - layers_to_skip empty, so
   running the task again with the returned data is such a step. *)
C33_EmptyDownloadIsNoop ==
    [][/\ (d_pc = "idle" /\ d_pc' # "idle" /\ ~DownloadAborts(remote_timeline)
           /\ remote_timeline.stored_files \ download_data.data.layers_to_skip = {}) =>
              /\ d_pc' = "returned"
              /\ d_result' = "Successful"
              /\ download_data' = download_data
              /\ local_files' = local_files
              /\ temp_files' = temp_files
              /\ sync_queue' = sync_queue
              /\ d_fetched' = {}
              /\ ~d_fsync_failed'
       /\ (d_pc' = "returned" /\ d_result' = "Successful") =>
              remote_timeline'.stored_files \ download_data'.data.layers_to_skip = {}
       /\ (d_pc = "idle" /\ d_result = "Successful" /\ d_pc' # "idle") =>
              /\ d_pc' = "returned"
              /\ d_result' = "Successful"
              /\ download_data' = download_data]_vars

C33_Witness ==
    /\ DownloadReturned("Successful")
    /\ d_prev.after = "Successful"
    /\ d_pre = download_data
    /\ d_fetched = {}
    /\ Cardinality(remote_timeline.stored_files) > 1
    /\ \A l \in remote_timeline.stored_files : Exists(local_files, l)
    /\ d_pre_local = local_files

(* C35: in the run that follows a directory-fsync failure, the layers that failure took
   out of layers_to_skip are not fetched again: their files exist, stay untouched and
   the paths are in layers_to_skip again; the run returns Successful if its own
   directory fsync succeeds. *)
C35_Original ==
    (d_prev.fsync_failed /\ d_prev.undone # {}) =>
        /\ d_pc \in {"tasks", "returned"} => d_prev.undone \cap d_fetched = {}
        /\ (d_pc = "returned" /\ ~d_fsync_failed) => d_result = "Successful"

(* C35 amended: as C35, but the run returns Successful if its own directory fsync
   succeeds and no download of another layer fails in it. *)
C35_RenamedLayersNotRefetched ==
    (d_prev.fsync_failed /\ d_prev.undone # {}) =>
        /\ d_pc \in {"tasks", "returned"} =>
              /\ d_prev.undone \cap d_fetched = {}
              /\ d_prev.undone \cap d_pre.data.layers_to_skip = {}
              /\ \A l \in d_prev.undone :
                    /\ Exists(local_files, l)
                    /\ local_files[l] = d_pre_local[l]
                    /\ temp_files[l] = "absent"
                    /\ d_task[l] \in {"spawned", "ok"}
                    /\ l \in d_collected => l \in undo
        /\ (d_pc = "returned" /\ ~d_fsync_failed) =>
              /\ d_prev.undone \subseteq download_data.data.layers_to_skip
              /\ d_result = (IF DownloadErr = {} THEN "Successful" ELSE "FailedAndRescheduled")
        /\ (d_pc = "returned" /\ d_fsync_failed) =>
              /\ d_prev.undone \cap download_data.data.layers_to_skip = {}
              /\ d_result = "FailedAndRescheduled"

C35_Witness ==
    /\ DownloadReturned("Successful")
    /\ d_prev.fsync_failed
    /\ Cardinality(d_prev.undone) > 1
    /\ d_fetched = {}
    /\ d_prev.undone \subseteq download_data.data.layers_to_skip
    /\ d_pre.retries > 0

(* C23: a Successful download or upload returns the retries counter it was entered
   with and pushes nothing onto the sync queue; the counter changes and a task is
   pushed only when the result is FailedAndRescheduled. *)
C23_SuccessIsFrameNeutral ==
    /\ DownloadReturned("Successful") =>
          /\ download_data.retries = d_pre.retries
          /\ sync_queue = d_pre_queue
    /\ (d_pc = "returned" /\ (download_data.retries # d_pre.retries \/ sync_queue # d_pre_queue)) =>
          /\ d_result = "FailedAndRescheduled"
          /\ download_data.retries = d_pre.retries + 1
          /\ Len(sync_queue) = Len(d_pre_queue) + 1
    /\ UploadReturned("Successful") =>
          /\ upload_data.retries = u_pre.retries
          /\ sync_queue = u_pre_queue
    /\ (u_pc = "returned" /\ (upload_data.retries # u_pre.retries \/ sync_queue # u_pre_queue)) =>
          /\ u_result.variant = "FailedAndRescheduled"
          /\ upload_data.retries = u_pre.retries + 1
          /\ Len(sync_queue) = Len(u_pre_queue) + 1

C23_Witness ==
    \/ /\ DownloadReturned("Successful")
       /\ d_fetched # {}
       /\ d_pre.retries > 0
       /\ d_pre_queue # <<>>
    \/ /\ UploadReturned("Successful")
       /\ u_upload_calls # {}
       /\ u_pre.retries > 0
       /\ u_pre_queue # <<>>

(* ------------------------------------------------------------------ *)
(* properties of handle_walreceiver_connection                         *)
(* ------------------------------------------------------------------ *)

(* C10: every ReplicationFeedback sent satisfies
   ps_applylsn <= ps_flushlsn <= ps_writelsn. *)
C10_Original ==
    feedback # None =>
        /\ feedback[1].ps_applylsn <= feedback[1].ps_flushlsn
        /\ feedback[1].ps_flushlsn <= feedback[1].ps_writelsn

(* C19: in every state of a layer download a file at a destination path holds content
   that was completely copied and fsynced before it was renamed there; empty, partial
   or unsynced content exists only under the temp-suffixed name, also when a step
   fails or the pre-rename failpoint is armed. *)
C19_NoHalfWrittenLayer ==
    /\ \A l \in Layers : Exists(local_files, l) => local_files[l] = "synced"
    /\ \A l \in Layers :
          (Exists(local_files, l) /\ ~Exists(d_pre_local, l)) =>
              /\ d_task[l] \in {"renamed", "ok", "err"}
              /\ l \in d_fetched
              /\ ~failpoint_armed
    /\ \A l \in Layers :
          d_task[l] \in {"created", "copied", "synced"} => local_files[l] = d_pre_local[l]

C19_Witness ==
    \E l, k \in Layers :
        /\ local_files[l] = "synced" /\ ~Exists(d_pre_local, l)
        /\ temp_files[k] = "partial" /\ ~Exists(local_files, k)

(* C20: a layer whose download stream truncated mid-copy leaves only its temp file:
   the destination is not created, the layer is not added to layers_to_skip, the call
   returns FailedAndRescheduled with a task that still lacks the layer, and the next run
   of the task spawns a download for the layer and fetches it again. *)
C20_TruncatedIsRetried ==
    /\ \A l \in TruncatedLayers :
          /\ d_pc \in {"tasks", "returned"} =>
                /\ ~Exists(local_files, l)
                /\ l \notin download_data.data.layers_to_skip
          /\ d_pc = "returned" =>
                /\ d_result = "FailedAndRescheduled"
                /\ Len(sync_queue) = Len(d_pre_queue) + 1
                /\ l \notin sync_queue[Len(sync_queue)].data.data.layers_to_skip
    /\ \A l \in d_prev_truncated :
          d_pc \in {"tasks", "returned"} =>
              /\ d_task[l] # "none"
              /\ d_task[l] \in {"copied", "synced", "renamed", "ok"} => l \in d_fetched

C20_Witness ==
    \E l \in d_prev_truncated :
        /\ d_pc = "returned"
        /\ d_task[l] = "ok"
        /\ local_files[l] = "synced"

(* C18: when upload_timeline_layers has returned, every layer it added to
   uploaded_layers during the call has an object in the remote storage, and a layer
   whose upload failed or whose local file disappeared was not added. *)
C18_UploadedAreRemote ==
    u_pc = "returned" =>
        /\ (upload_data.data.uploaded_layers \ u_pre.data.uploaded_layers) \subseteq remote_objects
        /\ \A l \in Layers :
              u_task[l] \in {"MissingLocalFile", "Other"} =>
                  (l \in upload_data.data.uploaded_layers => l \in u_pre.data.uploaded_layers)

C18_Witness ==
    /\ u_pc = "returned"
    /\ upload_data.data.uploaded_layers \ u_pre.data.uploaded_layers # {}
    /\ \E l \in Layers :
          /\ u_task[l] = "MissingLocalFile"
          /\ l \notin upload_data.data.uploaded_layers

(* C11: in every ReplicationFeedback sent, ps_writelsn is last_rec_lsn, the LSN of the
   last WAL record ingested so far, whichever message triggered the feedback. *)
C11_Original ==
    feedback # None => feedback[1].ps_writelsn = fb_last_rec_lsn

(* C12: every record handed to ingest_record has an LSN that is a multiple of 8; when
   the decoder yields an unaligned LSN the handler returns an error without ingesting
   the record and without advancing last_rec_lsn to it. *)
C12_OnlyAlignedIngested ==
    /\ ingest_lsn % 8 = 0
    /\ decoded_lsn % 8 # 0 =>
          /\ w_pc = "done"
          /\ w_result = "Err"
          /\ ingest_lsn # decoded_lsn
          /\ last_rec_lsn # decoded_lsn
          /\ last_record_lsn # decoded_lsn

C12_Witness ==
    /\ decoded_lsn % 8 # 0
    /\ w_pc = "done"
    /\ w_result = "Err"
    /\ w_msgs > 0

(* C13: for a non-zero last_record_lsn the replication start point is a multiple of 8,
   at least last_record_lsn and less than 8 above it (equal when that is aligned), and
   START_REPLICATION, the WAL decoder and WalIngest all get this start point. *)
C13_StartpointPadded ==
    (w_pc = "loop" /\ w_msgs = 0) =>
        /\ last_record_lsn # 0
        /\ startpoint % 8 = 0
        /\ startpoint >= last_record_lsn
        /\ startpoint - last_record_lsn < 8
        /\ last_record_lsn % 8 = 0 => startpoint = last_record_lsn
        /\ sk_pos = startpoint
        /\ dec_floor = startpoint
        /\ walingest_start = startpoint

C13_Witness ==
    /\ w_pc = "loop"
    /\ w_msgs = 0
    /\ last_record_lsn % 8 # 0
    /\ startpoint = last_record_lsn + 3

(* C27: for every XLogData or PrimaryKeepAlive received, the status with commit_lsn =
   the message's wal_end (and streaming_lsn = wal_start + data length for XLogData) is
   published on the events channel before a record of the message is ingested, and is
   still the published value when the handling of that message fails. *)
C27_StatusBeforeIngest ==
    /\ w_pc = "ingest" =>
          /\ events = Some(connection_status)
          /\ last_rec_lsn = last_rec_lsn_before_msg \/ ingest_lsn = last_rec_lsn
    /\ (w_msgs > 0 /\ ~send_failed /\ w_pc \in {"ingest", "after_msg", "feedback", "send", "done"}) =>
          /\ events # None
          /\ events[1].commit_lsn = Some(w_msg.wal_end)
          /\ w_msg.kind = "XLogData" =>
                events[1].streaming_lsn = Some(w_msg.wal_start + w_msg.len)

C27_Witness ==
    /\ w_pc = "done"
    /\ w_result = "Err"
    /\ decoded_lsn % 8 # 0
    /\ w_msgs > 0
    /\ events[1].commit_lsn = Some(w_msg.wal_end)
    /\ events[1].streaming_lsn = Some(w_msg.wal_start + w_msg.len)

(* C28: when a send on events_sender fails because the listener was dropped, at any
   publish point, the handler returns Ok without having ingested a record of the
   message just received and without sending feedback for it. *)
C28_Original ==
    (w_pc = "done" /\ send_failed) =>
        /\ w_result = "Ok"
        /\ last_rec_lsn = last_rec_lsn_before_msg

(* C28 amended: a failed send at any publish point makes the handler return Ok at once,
   ingesting nothing more and sending no feedback; at the publish points before the
   message is processed no record of that message has been ingested, while the send
   that reports has_processed_wal fails only after records of the message were
   ingested. *)
C28_ListenerDroppedReturnsOk ==
    [][(send_failed' /\ ~send_failed) =>
          /\ ~listener_alive
          /\ w_pc' = "done"
          /\ w_result' = "Ok"
          /\ feedback' = feedback
          /\ events' = events
          /\ last_record_lsn' = last_record_lsn
          /\ ingest_lsn' = ingest_lsn
          /\ w_pc \in {"connect", "identify", "loop", "after_msg"}
          /\ w_pc = "loop" => last_rec_lsn' = last_rec_lsn_before_msg'
          /\ w_pc = "after_msg" => last_rec_lsn > last_rec_lsn_before_msg]_vars

C28_Witness ==
    /\ w_pc = "done"
    /\ send_failed
    /\ w_result = "Ok"
    /\ last_rec_lsn > last_rec_lsn_before_msg
    /\ ingest_lsn = last_rec_lsn

(* C29: once the cancellation signal has fired while the WAL receiver is in its message
   loop, handle_walreceiver_connection eventually returns Ok(()). *)
C29_Original ==
    (cancelled /\ w_pc \in {"loop", "ingest", "after_msg", "feedback", "send"})
        ~> (w_pc = "done" /\ w_result = "Ok")

(* C29 amended: once the cancellation signal has fired while the WAL receiver is in its
   message loop, handle_walreceiver_connection eventually returns, also when the
   safekeeper keeps sending messages; the return is Ok(()) unless the stream or the
   handling of a message already received fails first. *)
C29_CancelledEventuallyReturns ==
    (cancelled /\ w_pc \in {"loop", "ingest", "after_msg", "feedback", "send"})
        ~> (w_pc = "done")

C29_Witness ==
    /\ cancelled
    /\ listener_alive
    /\ w_pc = "done"
    /\ w_result = "Ok"
    /\ w_msgs = MaxMsgs
    /\ feedback # None

(* C31: a PrimaryKeepAlive leads to the sending of a replication feedback iff its
   reply_requested flag is set, that feedback carries last_rec_lsn as write LSN, and a
   keepalive ingests nothing; no feedback leaves the handler anywhere but at its send. *)
C31_KeepAliveFeedback ==
    [][/\ (w_pc = "loop" /\ w_pc' = "after_msg") =>
              /\ w_msg'.kind = "PrimaryKeepAlive"
              /\ status_update' = (IF w_msg'.reply THEN Some(last_rec_lsn) ELSE None)
              /\ last_rec_lsn' = last_rec_lsn
              /\ last_record_lsn' = last_record_lsn
       /\ (w_msg.kind = "PrimaryKeepAlive" /\ w_pc = "after_msg" /\ w_pc' # w_pc) =>
              /\ w_pc' \in (IF w_msg.reply THEN {"feedback", "done"} ELSE {"loop", "done"})
              /\ last_rec_lsn = last_rec_lsn_before_msg
              /\ connection_status' = connection_status
       /\ (w_msg.kind = "PrimaryKeepAlive" /\ w_pc = "send" /\ w_pc' = "loop") =>
              /\ w_msg.reply
              /\ feedback' # None
              /\ feedback'[1].ps_writelsn = last_rec_lsn
              /\ feedback'[1].trigger = "PrimaryKeepAlive"
       /\ w_msg'.kind = "PrimaryKeepAlive" => w_pc' # "ingest"
       /\ feedback' # feedback => (w_pc = "send" /\ w_pc' = "loop")]_vars

C31_Witness ==
    /\ w_pc = "loop"
    /\ w_msg.kind = "PrimaryKeepAlive"
    /\ w_msg.reply
    /\ ingest_lsn = last_rec_lsn
    /\ last_rec_lsn > startpoint
    /\ feedback # None
    /\ feedback[1].trigger = "PrimaryKeepAlive"
    /\ feedback[1].ps_writelsn = last_rec_lsn

(* C39: every status published on a WAL connection has is_connected = TRUE;
   has_processed_wal is FALSE in every status published before a record has been
   ingested on this connection (last_rec_lsn advanced), and once a status with
   has_processed_wal = TRUE has been published no later status has it FALSE. *)
C39_StatusFlags ==
    [][events' # events =>
          /\ events' # None
          /\ events'[1] = connection_status'
          /\ events'[1].is_connected
          /\ events'[1].has_processed_wal =>
                /\ last_rec_lsn' > startpoint'
                /\ last_rec_lsn' = ingest_lsn'
                /\ w_pc \in {"loop", "after_msg"}
          /\ (events # None /\ events[1].has_processed_wal) => events'[1].has_processed_wal
          /\ (w_pc = "after_msg" /\ last_rec_lsn > last_rec_lsn_before_msg) =>
                events'[1].has_processed_wal]_vars

C39_Witness ==
    /\ w_pc = "after_msg"
    /\ w_msg.kind = "PrimaryKeepAlive"
    /\ events # None
    /\ events[1].is_connected
    /\ events[1].has_processed_wal
    /\ events[1].commit_lsn = Some(w_msg.wal_end)
    /\ events[1].streaming_lsn # None
    /\ last_rec_lsn > startpoint

(* the status published after IDENTIFY_SYSTEM *)
IdentifiedStatus(xlogpos) == [InitialStatus EXCEPT !.commit_lsn = Some(xlogpos)]

(* START_REPLICATION PHYSICAL is sent in this step *)
StartReplicationIssued ==
    /\ w_pc = "start"
    /\ \/ startpoint' # startpoint
       \/ w_pc' = "loop"

(* C40: IDENTIFY_SYSTEM completes, then a status with is_connected = TRUE and
   commit_lsn = end_of_wal is published, and only then START_REPLICATION PHYSICAL is
   issued; it is never issued if IDENTIFY_SYSTEM failed, if the listener was dropped,
   or if the timeline's last_record_lsn is 0, which ends the connection with an
   error. *)
C40_Original ==
    [][/\ StartReplicationIssued =>
             /\ end_of_wal \in XlogPositions
             /\ events = Some(IdentifiedStatus(end_of_wal))
             /\ listener_alive
             /\ last_record_lsn # 0
       /\ (w_pc = "start" /\ w_pc' # w_pc /\ last_record_lsn = 0) =>
             (w_pc' = "done" /\ w_result' = "Err")]_vars

(* C40 amended: IDENTIFY_SYSTEM completes, then a status with is_connected = TRUE and
   commit_lsn = end_of_wal is published, and only then START_REPLICATION PHYSICAL is
   issued; it is never issued if IDENTIFY_SYSTEM failed, if one of the two sends of
   the status failed because the listener was dropped, or if the timeline's
   last_record_lsn is 0, which ends the connection with an error; a listener dropped
   after the second status was sent does not keep START_REPLICATION from being
   issued. *)
C40_ProtocolOrder ==
    [][/\ StartReplicationIssued =>
             /\ end_of_wal \in XlogPositions
             /\ events = Some(IdentifiedStatus(end_of_wal))
             /\ events[1].is_connected
             /\ ~send_failed
             /\ last_record_lsn # 0
             /\ startpoint = 0
             /\ startpoint' = last_record_lsn + CalcPadding(last_record_lsn, 8)
       /\ w_pc' = "start" =>
             /\ w_pc \in {"identify", "start"}
             /\ end_of_wal' \in XlogPositions
             /\ events' = Some(IdentifiedStatus(end_of_wal'))
             /\ startpoint' = 0
       /\ (w_pc = "identify" /\ w_pc' = "start") => listener_alive
       /\ (w_pc = "identify" /\ w_pc' # w_pc /\ ~listener_alive) =>
             (w_pc' = "done" /\ startpoint' = 0)
       /\ (w_pc = "identify" /\ w_pc' = "done" /\ end_of_wal' = 0) =>
             (w_result' = "Err" /\ events' = events)
       /\ w_pc' = "identify" =>
             (w_pc \in {"connect", "identify"} /\ events' = Some(InitialStatus))
       /\ (w_pc = "start" /\ w_pc' # w_pc /\ last_record_lsn = 0) =>
             (w_pc' = "done" /\ w_result' = "Err" /\ startpoint' = 0)]_vars

C40_Witness ==
    /\ w_pc = "loop"
    /\ w_msgs = 0
    /\ startpoint # 0
    /\ startpoint > last_record_lsn
    /\ end_of_wal \in XlogPositions
    /\ events = Some(IdentifiedStatus(end_of_wal))
    /\ ~listener_alive
    /\ ~send_failed

(* C30: on every return of handle_walreceiver_connection the gauge has been
   decremented as often as the call incremented it, and the guard is armed exactly
   while the incremented gauge is held. *)
C30_GaugeReleased ==
    /\ w_pc = "done" => (gauge = 0 /\ ~gauge_guard)
    /\ w_pc \in {"connect", "identify"} => (gauge = 0 /\ ~gauge_guard)
    /\ w_pc \in {"start", "loop", "ingest", "after_msg", "feedback", "send"} =>
          (gauge = 1 /\ gauge_guard)

C30_Witness ==
    /\ w_pc = "done"
    /\ w_result = "Err"
    /\ w_msgs > 0
    /\ walingest_start # 0
    /\ gauge = 0
    /\ ~gauge_guard

(* ------------------------------------------------------------------ *)
(* properties of the index part functions                              *)
(* ------------------------------------------------------------------ *)

HardFailed(t) == {tl \in Timelines : i_results[<<t, tl>>] = "Other"}
Fetched(t) == {tl \in Timelines : i_results[<<t, tl>>] = "Ok"}
NotFoundOf(t) == {tl \in Timelines : i_results[<<t, tl>>] = "NotFound"}

(* C14: while download_index_parts accumulates results, a tenant's value becomes
   Poisoned at that tenant's first hard failure, and a Poisoned value stays Poisoned
   whatever result is consumed afterwards, keeping what it has recorded. *)
C14_PoisonedIsSticky ==
    [][\A t \in Tenants :
        /\ index_parts[t].variant = "Poisoned" =>
              /\ index_parts'[t].variant = "Poisoned"
              /\ index_parts[t].missing \subseteq index_parts'[t].missing
              /\ index_parts[t].present \subseteq index_parts'[t].present
        /\ (HardFailed(t) = {} /\ HardFailed(t)' # {}) =>
              /\ index_parts[t].variant \in {"Absent", "Present"}
              /\ index_parts'[t].variant = "Poisoned"
        /\ (index_parts[t].variant # "Poisoned" /\ index_parts'[t].variant = "Poisoned") =>
              (HardFailed(t) = {} /\ HardFailed(t)' # {})]_vars

C14_Witness ==
    \E t \in Tenants :
        /\ index_parts[t].variant = "Poisoned"
        /\ \E tl \in Fetched(t) : <<t, tl>> \in i_late
        /\ i_pc = "returned"

(* C15: in the map download_index_parts returns, a tenant is Poisoned iff a fetch of
   one of its own timelines failed with an error other than NotFound, and then its
   missing set is exactly those timelines; NotFound and other tenants' failures do
   not poison it. *)
C15_PoisonedIffHardFailure ==
    (i_pc = "returned" /\ i_result.cause # "listing") =>
        \A t \in Tenants :
            /\ index_parts[t].variant = "Poisoned" <=> HardFailed(t) # {}
            /\ index_parts[t].variant = "Poisoned" => index_parts[t].missing = HardFailed(t)
            /\ index_parts[t].variant # "Poisoned" => index_parts[t].missing = {}
            /\ index_parts[t].present = Fetched(t)

C15_Witness ==
    /\ i_pc = "returned"
    /\ i_mode = "bulk"
    /\ \E t, o \in Tenants :
          /\ index_parts[t].variant = "Poisoned"
          /\ NotFoundOf(t) # {}
          /\ index_parts[o].variant = "Present"
          /\ NotFoundOf(o) # {}

(* C16: for a non-empty listing gather_tenant_timelines_index_parts fails iff the
   tenant's bulk-fetch result is Poisoned, the error carrying the missing ids, and
   otherwise returns Ok with the index parts that were fetched. *)
C16_Original ==
    (i_mode = "gather" /\ i_pc = "returned" /\ i_result.cause # "listing") =>
        /\ i_result.variant = "Err" <=> index_parts[i_tenant].variant = "Poisoned"
        /\ i_result.variant = "Err" => i_result.missing = index_parts[i_tenant].missing
        /\ i_result.variant = "Ok" => i_result.parts = Fetched(i_tenant)

(* C17: per timeline the disk_consistent_lsn of the published index part never
   decreases over upload_index_part calls; a lower one is rejected and leaves the
   remote index part unchanged. *)
C17_Original ==
    (p_prev # None /\ p_calls > 0) =>
        /\ published # None
        /\ published[1].disk_consistent_lsn >= p_prev[1].disk_consistent_lsn
        /\ p_index_part.disk_consistent_lsn < p_prev[1].disk_consistent_lsn =>
              (p_result = "Err" /\ published = p_prev)

(* the tenant's value as the results consumed so far determine it *)
PartsOf(t) ==
    IF HardFailed(t) # {}
    THEN [variant |-> "Poisoned", present |-> Fetched(t), missing |-> HardFailed(t)]
    ELSE IF Fetched(t) # {}
    THEN [variant |-> "Present", present |-> Fetched(t), missing |-> {}]
    ELSE NoParts

IndexPartsByResults ==
    (i_pc \in {"collect", "returned"} /\ i_result.cause # "listing") =>
        \A t \in Tenants : index_parts[t] = PartsOf(t)

CollectedOk == {l \in d_collected : d_task[l] = "ok"}
CollectedErr == {l \in d_collected : d_task[l] = "err"}

DownloadByResults ==
    /\ d_pc = "tasks" =>
          /\ download_data.data.layers_to_skip = d_pre.data.layers_to_skip \cup CollectedOk
          /\ undo = CollectedOk
          /\ errors_happened <=> CollectedErr # {}
    /\ (d_pc = "returned" /\ d_result \in {"Successful", "FailedAndRescheduled"}) =>
          /\ d_result = "Successful" <=> (CollectedErr = {} /\ ~d_fsync_failed)
          /\ download_data.data.layers_to_skip =
                IF d_fsync_failed THEN d_pre.data.layers_to_skip \ CollectedOk
                ELSE d_pre.data.layers_to_skip \cup CollectedOk

UploadedOk == {l \in u_collected : u_task[l] = "ok"}
UploadedErr(dropped) ==
    {l \in u_collected : u_task[l] = "Other" \/ (u_task[l] = "MissingLocalFile" /\ l \notin dropped)}

(* the outcome of upload_timeline_layers when `dropped` are the failed layers that
   were taken out of the task *)
UploadByResults(dropped) ==
    u_pc \in {"tasks", "returned"} =>
        /\ upload_data.data.layers_to_upload =
              u_pre.data.layers_to_upload \ (UploadedOk \cup dropped)
        /\ upload_data.data.uploaded_layers = u_pre.data.uploaded_layers \cup UploadedOk
        /\ Range(errors) = UploadedErr(dropped)
        /\ (u_pc = "returned" /\ u_collected # {}) =>
              (u_result.variant = "Successful" <=> UploadedErr(dropped) = {})

(* two futures of upload_timeline_layers that finished with the same result *)
SameUploadResult(l, m) ==
    /\ u_task[l] = u_task[m]
    /\ l \in u_open_missing <=> m \in u_open_missing
    /\ l \in u_upload_calls <=> m \in u_upload_calls

(* C37: the outcome of the parallel phases is determined by the per-item results,
   whatever the order in which they are consumed: the map of download_index_parts,
   the result and layers_to_skip of download_timeline_layers, the result,
   layers_to_upload and uploaded_layers of upload_timeline_layers; in particular two
   uploads that finished with the same result are treated alike. *)
C37_Original ==
    /\ IndexPartsByResults
    /\ DownloadByResults
    /\ UploadByResults(u_dropped)
    /\ \A l, m \in u_collected :
          SameUploadResult(l, m) => (l \in u_dropped <=> m \in u_dropped)

(* C37 amended: for download_index_parts and download_timeline_layers the outcome is
   determined by the per-item results for every completion order; for
   upload_timeline_layers it is determined by the per-item results together with, for
   each MissingLocalFile result, whether the path exists at the moment the result is
   consumed, so a file removed while the results are consumed makes the outcome depend
   on when each result is taken. *)
C37_CompletionOrderIrrelevant ==
    [][/\ IndexPartsByResults'
       /\ DownloadByResults'
       /\ UploadByResults(u_dropped)'
       /\ \A l \in u_collected' \ u_collected :
             l \in u_dropped' <=> (u_task[l] = "MissingLocalFile" /\ ~Exists(local_files, l))
       /\ u_collected' = u_collected => u_dropped' = u_dropped
       /\ u_dropped' # {} => u_dropped \subseteq u_dropped']_vars

C37_Witness ==
    /\ u_pc = "returned"
    /\ \E l, m \in u_collected :
          /\ l # m
          /\ SameUploadResult(l, m)
          /\ l \notin u_open_missing
          /\ l \in u_dropped
          /\ m \in Range(errors)
    /\ u_result.variant = "FailedAndRescheduled"

(* ------------------------------------------------------------------ *)
(* specifications                                                     *)
(* ------------------------------------------------------------------ *)

(* a task of another timeline that may already wait in the queue *)
OtherPending == UploadTask("other",
    [retries |-> 0, data |-> [layers_to_upload |-> {}, uploaded_layers |-> {}, metadata |-> "None"]])

RestDownload ==
    /\ download_data = [retries |-> 0, data |-> [layers_to_skip |-> {}]]
    /\ d_pc = "off"
    /\ d_task = [l \in Layers |-> "none"]
    /\ d_collected = {}
    /\ undo = {}
    /\ errors_happened = FALSE
    /\ temp_files = [l \in Layers |-> "absent"]
    /\ failpoint_armed = FALSE
    /\ d_result = "none"
    /\ d_pre = download_data
    /\ d_pre_queue = <<>>
    /\ d_pre_local = local_files
    /\ d_fetched = {}
    /\ d_fsync_failed = FALSE
    /\ d_prev_truncated = {}
    /\ d_prev = NoPrevRun

RestUpload ==
    /\ upload_data = [retries |-> 0,
                      data |-> [layers_to_upload |-> {}, uploaded_layers |-> {}, metadata |-> "None"]]
    /\ u_pc = "off"
    /\ u_task = [l \in Layers |-> "none"]
    /\ u_collected = {}
    /\ errors = <<>>
    /\ remote_objects = {}
    /\ no_layers_upload = 0
    /\ u_result = NoUploadResult
    /\ u_pre = upload_data
    /\ u_pre_queue = <<>>
    /\ u_pre_objects = {}
    /\ u_open_missing = {}
    /\ u_upload_calls = {}
    /\ u_dropped = {}

RestIndex ==
    /\ i_mode = "off"
    /\ i_tenant = "tn1"
    /\ i_pc = "off"
    /\ i_pending = {}
    /\ index_parts = [t \in Tenants |-> NoParts]
    /\ i_results = [k \in Keys |-> "none"]
    /\ i_late = {}
    /\ i_result = NoGatherResult

RestIndexUpload ==
    /\ published = None
    /\ p_prev = None
    /\ p_calls = MaxCalls
    /\ p_index_part = IndexPart(0)
    /\ p_result = "none"

RestCodec ==
    /\ c_pc = "off"
    /\ c_id = <<"tn1", 1>>
    /\ c_index_part = NewIndexPart({}, {}, 0, <<>>)
    /\ c_bytes = <<>>
    /\ c_store = EmptyStorage
    /\ c_prev_store = EmptyStorage
    /\ c_uploads = 0
    /\ c_download = <<>>
    /\ c_result = NoCodecResult

RestSafekeeper ==
    /\ s_pc = "off"
    /\ s_retries = 0
    /\ s_polls = 0
    /\ s_sleeps = 0
    /\ s_dots = 0
    /\ s_result = "none"

RestSync ==
    /\ sync_id = "tl1"
    /\ sync_queue = <<>>
    /\ local_files = [l \in Layers |-> "absent"]
    /\ remote_timeline = NoRemoteTimeline

RestWal ==
    /\ w_pc = "off"
    /\ w_result = "none"
    /\ last_record_lsn = 0
    /\ disk_consistent_lsn = 0
    /\ remote_index = [present |-> FALSE, lsn |-> 0]
    /\ connection_status = InitialStatus
    /\ events = None
    /\ listener_alive = TRUE
    /\ cancelled = FALSE
    /\ gauge = 0
    /\ gauge_guard = FALSE
    /\ end_of_wal = 0
    /\ caught_up = FALSE
    /\ last_rec_lsn = 0
    /\ last_rec_lsn_before_msg = 0
    /\ startpoint = 0
    /\ sk_pos = 0
    /\ dec_floor = 0
    /\ w_msg = [kind |-> "none", wal_start |-> 0, len |-> 0, wal_end |-> 0, reply |-> FALSE]
    /\ w_msgs = 0
    /\ status_update = None
    /\ remote_consistent = 0
    /\ feedback = None
    /\ fb_last_rec_lsn = 0
    /\ decoded_lsn = 0
    /\ ingest_lsn = 0
    /\ walingest_start = 0
    /\ send_failed = FALSE

InitDownloadTask ==
    /\ sync_id \in SyncIds
    /\ sync_queue = <<OtherPending>>
    /\ local_files \in [Layers -> {"absent", "synced"}]
    /\ remote_timeline \in RemoteTimelines
    /\ download_data \in [retries : {0}, data : [layers_to_skip : SUBSET Layers]]
    /\ d_pc = "idle"
    /\ d_task = [l \in Layers |-> "none"]
    /\ d_collected = {}
    /\ undo = {}
    /\ errors_happened = FALSE
    /\ temp_files = [l \in Layers |-> "absent"]
    /\ failpoint_armed \in BOOLEAN
    /\ d_result = "none"
    /\ d_pre = download_data
    /\ d_pre_queue = sync_queue
    /\ d_pre_local = local_files
    /\ d_fetched = {}
    /\ d_fsync_failed = FALSE
    /\ d_prev_truncated = {}
    /\ RestUpload
    /\ RestWal
    /\ RestIndex
    /\ RestIndexUpload
    /\ RestCodec
    /\ RestSafekeeper

InitDownload == InitDownloadTask /\ d_prev = UntrackedRun

NextDownload ==
    \/ DownloadCall
    \/ \E l \in Layers : LayerExistsLocally(l)
    \/ \E l \in Layers : CreateTempFile(l)
    \/ \E l \in Layers : CopyLayer(l)
    \/ \E l \in Layers : SyncTempFile(l)
    \/ \E l \in Layers : RenameLayer(l)
    \/ \E l \in Layers : FsyncLayer(l)
    \/ \E l \in Layers : CollectDownload(l)
    \/ FsyncTimelineDir
    \/ PopDownload
    \/ DownloadAgain

SpecDownload == InitDownload /\ [][NextDownload]_vars

(* a task that is followed over its runs: the timeline awaits download, nothing is
   downloaded yet and the failpoint is not armed *)
InitDownloadRerun ==
    /\ InitDownloadTask
    /\ d_prev = NoPrevRun
    /\ ~DownloadAborts(remote_timeline)
    /\ ~failpoint_armed
    /\ download_data.data.layers_to_skip = {}
    /\ local_files = [l \in Layers |-> "absent"]

SpecDownloadRerun == InitDownloadRerun /\ [][NextDownload]_vars

(* a task on a timeline that awaits download; the failpoint is not armed and the
   highest layer is not stored remotely *)
InitDownloadLive ==
    /\ InitDownload
    /\ ~DownloadAborts(remote_timeline)
    /\ ~failpoint_armed
    /\ remote_timeline.stored_files \subseteq 1..(MaxLayers - 1)

(* the futures of a run are polled to completion and the sync loop keeps taking
   tasks from the queue (download.rs:322-336, the caller's loop) *)
FairDownload == WF_vars(NextDownload)

SpecDownloadLive == InitDownloadLive /\ [][NextDownload]_vars /\ FairDownload

InitUpload ==
    /\ sync_id \in SyncIds
    /\ sync_queue = <<OtherPending>>
    /\ local_files \in [Layers -> {"absent", "synced"}]
    /\ remote_timeline \in {rt \in RemoteTimelines : ~rt.awaits_download}
    /\ upload_data \in [retries : {0},
                        data : [layers_to_upload : SUBSET Layers, uploaded_layers : {{}},
                                metadata : Metadatas]]
    /\ u_pc = "idle"
    /\ u_task = [l \in Layers |-> "none"]
    /\ u_collected = {}
    /\ errors = <<>>
    /\ remote_objects = remote_timeline.stored_files
    /\ no_layers_upload = 0
    /\ u_result = NoUploadResult
    /\ u_pre = upload_data
    /\ u_pre_queue = sync_queue
    /\ u_pre_objects = remote_objects
    /\ u_open_missing = {}
    /\ u_upload_calls = {}
    /\ u_dropped = {}
    /\ RestDownload
    /\ RestWal
    /\ RestIndex
    /\ RestIndexUpload
    /\ RestCodec
    /\ RestSafekeeper

NextUpload ==
    \/ UploadCall
    \/ \E l \in Layers : OpenSource(l)
    \/ \E l \in Layers : SourceSize(l)
    \/ \E l \in Layers : UploadObject(l)
    \/ \E l \in Layers : CollectUpload(l)
    \/ UploadReturn
    \/ PopUpload
    \/ \E l \in Layers : GcRemoveLayer(l)

SpecUpload == InitUpload /\ [][NextUpload]_vars

InitLsns == {0, 5, 8}

InitWal ==
    /\ w_pc = "connect"
    /\ w_result = "none"
    /\ last_record_lsn \in InitLsns
    /\ disk_consistent_lsn \in {l \in InitLsns : l <= last_record_lsn}
    /\ remote_index \in {[present |-> FALSE, lsn |-> 0]} \cup
                        [present : {TRUE}, lsn : {l \in InitLsns : l <= disk_consistent_lsn}]
    /\ connection_status = InitialStatus
    /\ events = None
    /\ listener_alive = TRUE
    /\ cancelled = FALSE
    /\ gauge = 0
    /\ gauge_guard = FALSE
    /\ end_of_wal = 0
    /\ caught_up = FALSE
    /\ last_rec_lsn = 0
    /\ last_rec_lsn_before_msg = 0
    /\ startpoint = 0
    /\ sk_pos = 0
    /\ dec_floor = 0
    /\ w_msg = [kind |-> "none", wal_start |-> 0, len |-> 0, wal_end |-> 0, reply |-> FALSE]
    /\ w_msgs = 0
    /\ status_update = None
    /\ remote_consistent = 0
    /\ feedback = None
    /\ fb_last_rec_lsn = 0
    /\ decoded_lsn = 0
    /\ ingest_lsn = 0
    /\ walingest_start = 0
    /\ send_failed = FALSE
    /\ sync_id = "tl1"
    /\ sync_queue = <<>>
    /\ local_files = [l \in Layers |-> "absent"]
    /\ remote_timeline = NoRemoteTimeline
    /\ RestDownload
    /\ RestUpload
    /\ RestIndex
    /\ RestIndexUpload
    /\ RestCodec
    /\ RestSafekeeper

NextWal ==
    \/ Connect
    \/ IdentifySystem
    \/ StartReplication
    \/ LeaveLoop
    \/ ReceiveXLogData
    \/ ReceiveKeepAlive
    \/ IngestRecord
    \/ IngestEnd
    \/ AfterMessage
    \/ ReadRemoteIndex
    \/ SendFeedback
    \/ Checkpoint
    \/ RemoteIndexUpdate
    \/ DropListener
    \/ Cancel

SpecWal == InitWal /\ [][NextWal]_vars

(* the select! of walreceiver_connection.rs:171-179 takes its cancellation branch *)
Interrupted == LeaveLoop /\ CancellationChanged(cancelled) /\ w_result' = "Ok"

(* a connection to a timeline that has WAL, with a safekeeper that never runs out of
   messages *)
InitWalLive ==
    /\ InitWal
    /\ last_record_lsn = 8
    /\ ~remote_index.present

NextWalLive ==
    \/ Connect
    \/ IdentifySystem
    \/ StartReplication
    \/ LeaveLoop
    \/ ReceiveXLogData
    \/ ReceiveKeepAlive
    \/ KeepAliveFlood
    \/ IngestRecord
    \/ IngestEnd
    \/ AfterMessage
    \/ ReadRemoteIndex
    \/ SendFeedback
    \/ DropListener
    \/ Cancel

(* every await of the handler completes, and the select! picks its branch at random
   among the ready ones, so a cancellation branch that is ready again and again is
   taken *)
FairWalLive ==
    /\ WF_vars(IngestRecord)
    /\ WF_vars(IngestEnd)
    /\ WF_vars(AfterMessage)
    /\ WF_vars(ReadRemoteIndex)
    /\ WF_vars(SendFeedback)
    /\ SF_vars(Interrupted)

SpecWalLive == InitWalLive /\ [][NextWalLive]_vars /\ FairWalLive

(* the sync loop runs either a download task or an upload task of timeline tl1 *)
InitSync ==
    /\ \/ InitDownload /\ download_data.data.layers_to_skip = {}
       \/ InitUpload /\ upload_data.data.metadata = "meta"
    /\ ~failpoint_armed

NextSync == NextDownload \/ NextUpload

SpecSync == InitSync /\ [][NextSync]_vars

InitIndexParts ==
    /\ i_mode \in {"bulk", "gather"}
    /\ i_tenant \in Tenants
    /\ i_pc = "idle"
    /\ i_pending = {}
    /\ index_parts = [t \in Tenants |-> NoParts]
    /\ i_results = [k \in Keys |-> "none"]
    /\ i_late = {}
    /\ i_result = NoGatherResult
    /\ RestSync
    /\ RestDownload
    /\ RestUpload
    /\ RestWal
    /\ RestIndexUpload
    /\ RestCodec
    /\ RestSafekeeper

NextIndexParts ==
    \/ DownloadIndexParts
    \/ GatherCall
    \/ CollectIndexPart
    \/ DownloadIndexPartsReturn
    \/ GatherReturn

SpecIndexParts == InitIndexParts /\ [][NextIndexParts]_vars

(* the three functions with a parallel phase, one of them running *)
InitParallel == InitSync \/ InitIndexParts

NextParallel == NextSync \/ NextIndexParts

SpecParallel == InitParallel /\ [][NextParallel]_vars

InitIndexUpload ==
    /\ published \in {None} \cup {Some(IndexPart(lsn)) : lsn \in IndexLsns}
    /\ p_prev = published
    /\ p_calls = 0
    /\ p_index_part = IndexPart(0)
    /\ p_result = "none"
    /\ RestSync
    /\ RestDownload
    /\ RestUpload
    /\ RestWal
    /\ RestIndex
    /\ RestCodec
    /\ RestSafekeeper

NextIndexUpload == UploadIndexPart

SpecIndexUpload == InitIndexUpload /\ [][NextIndexUpload]_vars

(* ------------------------------------------------------------------ *)
(* SafekeeperNode::start (control_plane/src/safekeeper.rs)             *)
(* ------------------------------------------------------------------ *)

(* safekeeper.rs:168 *)
RETRIES == 15

(* safekeeper.rs:178: a refused connection is reported with a dot while retries < 5 *)
QuietRetries == 5

(* what check_status returns: Ok, a transport error (a refused connection or another
   one), or an HTTP error response *)
StatusOutcomes == {"Ok", "ConnectRefused", "Transport", "Response"}

(* safekeeper.rs:178 *)
PrintsDot(outcome, retries) == outcome = "ConnectRefused" /\ retries < QuietRetries

SafekeeperFrame == UNCHANGED <<shared_vars, download_vars, upload_vars, wal_vars, index_vars,
                               codec_vars>>

(* safekeeper.rs:157-169: the daemon is spawned; the loop starts with retries = 1 *)
SpawnSafekeeper ==
    /\ s_pc = "spawn"
    /\ \/ /\ s_pc' = "poll"
          /\ s_retries' = 1
          /\ UNCHANGED s_result
       \/ /\ s_pc' = "done"                          \* cmd.status() is no success
          /\ s_result' = "FailedSpawn"
          /\ UNCHANGED s_retries
    /\ UNCHANGED <<s_polls, s_sleeps, s_dots>>
    /\ SafekeeperFrame

(* safekeeper.rs:169-197: one iteration of `for retries in 1..RETRIES` *)
CheckStatus ==
    /\ s_pc = "poll"
    /\ s_retries < RETRIES
    /\ s_polls' = s_polls + 1
    /\ \E outcome \in StatusOutcomes :
        CASE outcome = "Ok" ->
                /\ s_pc' = "done"
                /\ s_result' = "Ok"
                /\ UNCHANGED <<s_retries, s_sleeps, s_dots>>
          [] outcome = "Response" ->
                /\ s_pc' = "done"
                /\ s_result' = "FailedResponse"
                /\ UNCHANGED <<s_retries, s_sleeps, s_dots>>
          [] OTHER ->
                /\ s_dots' = IF PrintsDot(outcome, s_retries) THEN s_dots + 1 ELSE s_dots
                /\ s_sleeps' = s_sleeps + 1           \* thread::sleep of one second
                /\ s_retries' = s_retries + 1
                /\ UNCHANGED <<s_pc, s_result>>
    /\ SafekeeperFrame

(* safekeeper.rs:199: the range is exhausted *)
StartTimesOut ==
    /\ s_pc = "poll"
    /\ s_retries >= RETRIES
    /\ s_pc' = "done"
    /\ s_result' = "FailedTimeout"
    /\ UNCHANGED <<s_retries, s_polls, s_sleeps, s_dots>>
    /\ SafekeeperFrame

(* ------------------------------------------------------------------ *)
(* properties of SafekeeperNode::start                                 *)
(* ------------------------------------------------------------------ *)

(* C34: start polls the status endpoint up to 15 times, one second apart, before it
   fails with 'failed to start'; a refused connection during the first 5 tries is
   reported as normal (a dot) and polling continues; an HTTP error response aborts the
   start at once. *)
C34_Original ==
    /\ s_result = "FailedTimeout" => (s_polls = RETRIES /\ s_sleeps = s_polls)
    /\ s_result = "FailedResponse" => s_sleeps = s_polls - 1
    /\ s_dots <= QuietRetries

(* ------------------------------------------------------------------ *)
(* properties of the index part codec                                  *)
(* ------------------------------------------------------------------ *)

(* C32: upload_index_part writes exactly one remote object, index_part.json under the
   timeline's prefix, whose content decodes to the index part given; download_index_part
   on that object returns the same index part; repeating the upload with the same input
   leaves the object as it was. *)
C32_IndexPartRoundTrip ==
    LET path == <<c_id, "index_part.json">> IN
    /\ c_uploads > 0 =>
          /\ c_store[path] # None
          /\ Decodable(c_store[path][1])
          /\ Decode(c_store[path][1]) = c_index_part
          /\ \A other \in StoragePaths \ {path} : c_store[other] = c_prev_store[other]
    /\ (c_uploads > 1 /\ c_pc = "uploaded") => c_store = c_prev_store
    /\ (c_uploads > 0 /\ c_pc = "done" /\ c_result.op = "download") =>
          /\ c_result.variant \in {"Ok", "Other"}
          /\ c_result.variant = "Ok" => c_result.value = c_index_part

C32_Witness ==
    /\ c_pc = "done"
    /\ c_uploads > 1
    /\ c_result = CodecResult("download", "Ok", c_index_part)
    /\ Cardinality(c_index_part.stored_files) > 1
    /\ c_index_part.missing_files # {}
    /\ c_index_part.missing_files # c_index_part.stored_files
    /\ Len(c_index_part.metadata_bytes) > 1
    /\ c_index_part.disk_consistent_lsn > 0

(* an object that is no index part: a field name is missing *)
CorruptObject == <<FieldToken("stored_files"), ValueToken(1)>>

InitIndexCodec ==
    /\ c_pc = "idle"
    /\ c_id \in Keys
    /\ c_index_part \in IndexPartValues
    /\ c_bytes = <<>>
    /\ c_store \in {EmptyStorage,
                     [EmptyStorage EXCEPT ![<<c_id, "index_part.json">>] = Some(CorruptObject)],
                     [EmptyStorage EXCEPT ![<<c_id, "metadata">>] = Some(CorruptObject)]}
    /\ c_prev_store = c_store
    /\ c_uploads = 0
    /\ c_download = <<>>
    /\ c_result = NoCodecResult
    /\ RestSync
    /\ RestDownload
    /\ RestUpload
    /\ RestWal
    /\ RestIndex
    /\ RestIndexUpload
    /\ RestSafekeeper

NextIndexCodec ==
    \/ SerializeIndexPart
    \/ PutIndexPart
    \/ FetchIndexPart
    \/ DeserializeIndexPart

SpecIndexCodec == InitIndexCodec /\ [][NextIndexCodec]_vars

InitSafekeeper ==
    /\ s_pc = "spawn"
    /\ s_retries = 0
    /\ s_polls = 0
    /\ s_sleeps = 0
    /\ s_dots = 0
    /\ s_result = "none"
    /\ RestSync
    /\ RestDownload
    /\ RestUpload
    /\ RestWal
    /\ RestIndex
    /\ RestIndexUpload
    /\ RestCodec

NextSafekeeper ==
    \/ SpawnSafekeeper
    \/ CheckStatus
    \/ StartTimesOut

SpecSafekeeper == InitSafekeeper /\ [][NextSafekeeper]_vars

====
